---- MODULE Spec2Model ----
(***************************************************************************)
(* Model of the AI quiz application (Ityord/aistudy):                      *)
(*   - services/geminiService.ts : withRetry, generateQuiz,                *)
(*     generateSuggestions, generateImprovementSuggestions                 *)
(*   - App.tsx : the quiz session controller                               *)
(*                                                                         *)
(* Text is modelled as a sequence of pieces.  A piece is a one-character   *)
(* string, or a whole literal of the source kept as one piece.  Messages   *)
(* thrown by the provider are spelled character by character, so that      *)
(* toLowerCase and includes are computed on them.                          *)
(***************************************************************************)
EXTENDS Integers, Sequences, FiniteSets, TLC

VARIABLES
    retry,            \* the withRetry invocations, one per caller
    gen,              \* the calls of the three generation functions
    quizConfig,       \* App.tsx 11
    questions,        \* App.tsx 12
    userAnswers,      \* App.tsx 13
    incorrectAnswers, \* App.tsx 14
    quizState,        \* App.tsx 15
    error,            \* App.tsx 16
    isSubmitting,     \* App.tsx 20
    isSubmittingRef,  \* App.tsx 21
    quizHistory,      \* App.tsx 18
    showHistory,      \* App.tsx 19
    quizView,         \* the state of the mounted QuizView (QuizView 32-35)
    resultsView,      \* the state of the mounted ResultsView (ResultsView.tsx 19-22)
    callArgs,         \* the arguments of the latest call of each generation function
    lastEvent,        \* the handler that ran last, and the branch it took
    storage,          \* localStorage: the 'quizHistory' entry, and whether access throws
    historyShape,     \* whether the value of quizHistory is an array (App.tsx 18, 27)
    crashed,          \* an error escaped a render or an effect: nothing is shown
    setup,            \* the state of the mounted QuizSetup (SuggestionsView.tsx 73-79)
    prompt,           \* the prompt of the latest generateQuiz call (geminiService.ts 135)
    now               \* the latest reading of Date.now() (App.tsx 78), in completions

storeVars == <<storage, historyShape, crashed>>

formVars == <<setup, prompt>>

appVars == <<quizConfig, questions, userAnswers, incorrectAnswers, quizState,
             error, isSubmitting, isSubmittingRef, quizHistory, showHistory,
             quizView, resultsView, callArgs, lastEvent, storage, historyShape,
             crashed, setup, prompt, now>>

vars == <<retry, gen, appVars>>

(***************************************************************************)
(* Bounds of the model                                                     *)
(***************************************************************************)
\* largest maxRetries argument the harness passes to withRetry
MaxRetriesBound == 5
\* longest question set of the scoring harness
MaxQuestions == 3
\* the user stops starting quizzes once the history holds this many items
MaxHistory == 2
\* the user stops starting quizzes once this many have been completed
MaxCompletions == 2
\* the time limits of a quiz in timer ticks: getTimeLimit gives 60 and 45
\* minutes in seconds, and the countdown is scaled down
LongTimeLimit == 2
ShortTimeLimit == 1

\* longest list of incorrect answers handed to generateQuizPrompt in its harness
MaxMistakes == 2

(***************************************************************************)
(* JavaScript strings                                                      *)
(***************************************************************************)
Upper == <<"A","B","C","D","E","F","G","H","I","J","K","L","M",
           "N","O","P","Q","R","S","T","U","V","W","X","Y","Z">>
Lower == <<"a","b","c","d","e","f","g","h","i","j","k","l","m",
           "n","o","p","q","r","s","t","u","v","w","x","y","z">>

LowerChar(c) ==
    IF \E i \in 1..Len(Upper) : Upper[i] = c
    THEN Lower[CHOOSE i \in 1..Len(Upper) : Upper[i] = c]
    ELSE c

\* String.prototype.toLowerCase
toLowerCase(s) == [i \in 1..Len(s) |-> LowerChar(s[i])]

\* String.prototype.includes
includes(s, sub) ==
    \E i \in 0..(Len(s) - Len(sub)) : SubSeq(s, i + 1, i + Len(sub)) = sub

(***************************************************************************)
(* Values an operation can throw: an Error object carrying a message, or   *)
(* a value that is not an Error (here a thrown string).                    *)
(***************************************************************************)
ErrorObject(name, msg) == [kind |-> "Error", name |-> name, message |-> msg]
ThrownString(s)        == [kind |-> "string", name |-> "", message |-> s]
NoValue                == [kind |-> "none", name |-> "", message |-> <<>>]

IsError(e) == e.kind = "Error"        \* error instanceof Error
StringOf(e) == e.message              \* String(error) of a thrown string

\* messages the provider call rejects with in this model
Msg500      == <<"5","0","0">>
Msg503      == <<"H","T","T","P"," ","5","0","3">>
MsgRpc      == <<"R","P","C"," ","F","a","i","l","e","d">>
MsgNetwork  == <<"N","e","t","w","o","r","k"," ","E","r","r","o","r">>
MsgXhr      == <<"x","h","r"," ","e","r","r","o","r">>
MsgQuota    == <<"q","u","o","t","a">>
MsgBoom     == <<"b","o","o","m">>

ThrownValues ==
    { ErrorObject("Error", Msg500), ErrorObject("Error", Msg503),
      ErrorObject("Error", MsgRpc), ErrorObject("Error", MsgNetwork),
      ThrownString(MsgXhr),
      ErrorObject("Error", MsgQuota), ThrownString(MsgBoom) }

(***************************************************************************)
(* withRetry  (geminiService.ts 18-49)                                     *)
(***************************************************************************)
UnavailableMessage ==
    <<"The AI service is currently unavailable. Please try again in a few moments.">>
UnexpectedPrefix ==
    <<"An unexpected error occurred while communicating with the AI service. Details: ">>
UnknownMessage ==
    <<"An unknown error occurred while communicating with the AI service.">>

\* a variant that does not lower-case the message
errorMessageAsIs(err) ==
    IF IsError(err) THEN err.message ELSE StringOf(err)

\* line 25
errorMessage(err) ==
    IF IsError(err) THEN toLowerCase(err.message)
                      ELSE toLowerCase(StringOf(err))

\* lines 27-31
isTransientError(msg) ==
    \/ includes(msg, <<"5","0","0">>)
    \/ includes(msg, <<"5","0","3">>)
    \/ includes(msg, <<"r","p","c"," ","f","a","i","l","e","d">>)
    \/ includes(msg, <<"n","e","t","w","o","r","k"," ","e","r","r","o","r">>)
    \/ includes(msg, <<"x","h","r"," ","e","r","r","o","r">>)

RECURSIVE pow(_, _)
pow(b, n) == IF n <= 0 THEN 1 ELSE b * pow(b, n - 1)     \* Math.pow, n >= 0

\* line 34
delayLinear(attempt) == 1000 * attempt
delayFromAttempt(attempt) == 1000 * pow(2, attempt)
delay(attempt) == 1000 * pow(2, attempt - 1)

\* line 33
shouldRetryAnyError(transient, attempt, maxRetries) == attempt < maxRetries
shouldRetryOffByOne(transient, attempt, maxRetries) ==
    transient /\ attempt <= maxRetries
shouldRetry(transient, attempt, maxRetries) ==
    transient /\ attempt < maxRetries

\* a variant that reports the service as unavailable once a retry was made
finalErrorUnavailable(err, transient) ==
    ErrorObject("Error", UnavailableMessage)

\* lines 38-45: the error raised when the failure is not retried
finalErrorAlwaysWrapped(err, transient) ==
    ErrorObject("Error", UnexpectedPrefix \o err.message)
finalError(err, transient) ==
    IF transient THEN ErrorObject("Error", UnavailableMessage)
    ELSE IF IsError(err)
         THEN ErrorObject("Error", UnexpectedPrefix \o err.message)
         ELSE ErrorObject("Error", UnknownMessage)

CallEvent    == [ev |-> "call", ms |-> 0]
WaitEvent(d) == [ev |-> "wait", ms |-> d]

\* an invocation of withRetry that has not been made yet
NotInvoked ==
    [pc |-> "idle", maxRetries |-> 0, attempt |-> 0, calls |-> 0,
     trace |-> <<>>, caught |-> NoValue, resolved |-> NoValue,
     result |-> NoValue, error |-> NoValue]

\* lines 18-22: withRetry is entered and makes the first call of apiCall
withRetry(maxRetries) ==
    [NotInvoked EXCEPT !.pc = "pending", !.maxRetries = maxRetries,
                       !.calls = 1, !.trace = <<CallEvent>>]

\* line 22: the pending call resolved with value v; withRetry returns it
returnValue(w, v) ==
    [w EXCEPT !.pc = "returned", !.resolved = v, !.result = v]

\* lines 23-46: the pending call rejected with `err`
catchError(w, err) ==
    LET attempt   == w.attempt + 1
        transient == isTransientError(errorMessage(err))
    IN  IF shouldRetry(transient, attempt, w.maxRetries)
        THEN [w EXCEPT !.pc = "waiting", !.attempt = attempt, !.caught = err,
                       !.trace = Append(@, WaitEvent(delay(attempt)))]
        ELSE [w EXCEPT !.pc = "raised", !.attempt = attempt, !.caught = err,
                       !.error = finalError(err, transient)]

\* line 36 then 20-22: the backoff timer fires and apiCall is called again
timerFired(w) ==
    [w EXCEPT !.pc = "pending", !.calls = @ + 1, !.trace = Append(@, CallEvent)]

\* what withRetry has finished with
Returned(w) == w.pc = "returned"
Raised(w)   == w.pc = "raised"
Finished(w) == Returned(w) \/ Raised(w)

\* the delays waited so far, in order
RECURSIVE Waits(_)
Waits(trace) ==
    IF trace = <<>> THEN <<>>
    ELSE IF Head(trace).ev = "wait"
         THEN <<Head(trace).ms>> \o Waits(Tail(trace))
         ELSE Waits(Tail(trace))

(***************************************************************************)
(* Values the provider call resolves with in the withRetry harness         *)
(***************************************************************************)
Resolved(tag) == [kind |-> "value", name |-> tag, message |-> <<>>]
HarnessValues == { Resolved("v1"), Resolved("v2") }

(***************************************************************************)
(* The state of the App component after its first render (App.tsx 11-21)   *)
(***************************************************************************)
JsArray(items) ==
    [t |-> "array", items |-> items, present |-> {}, truthy |-> {}]
JsObject(present, truthy) ==
    [t |-> "object", items |-> <<>>, present |-> present, truthy |-> truthy]
JsNull      == [t |-> "null", items |-> <<>>, present |-> {}, truthy |-> {}]
JsUndefined == [t |-> "undefined", items |-> <<>>, present |-> {}, truthy |-> {}]

Null          == [isNull |-> TRUE, text |-> <<>>]
Message(text) == [isNull |-> FALSE, text |-> text]

NoConfig ==
    [exam |-> "none", subject |-> "none", topic |-> "none", level |-> "none",
     mergeTopic |-> "none"]

\* null in an answer array ((number | null)[], App.tsx 13)
NoAnswer == -1

\* no QuizView is mounted
NoQuizView ==
    [mounted |-> FALSE, currentQuestionIndex |-> 0, selectedAnswers |-> <<>>,
     currentSelection |-> NoAnswer, timeLeft |-> 0]

\* no ResultsView is mounted
NoResultsView ==
    [mounted |-> FALSE, suggestions |-> JsNull, improvementTopics |-> JsNull,
     isLoadingSuggestions |-> FALSE, suggestionError |-> Null, fetching |-> FALSE]

\* incorrectAnswers as an optional argument: undefined, or a list
Undefined == [passed |-> FALSE, list |-> <<>>]
Passed(list) == [passed |-> TRUE, list |-> list]

NoArgs == [config |-> NoConfig, incorrectAnswers |-> Undefined]

\* no prompt has been built
NoPrompt == <<>>

\* SuggestionsView.tsx 73-79: nothing is chosen or typed in a QuizSetup that
\* has just been mounted
NotChosen == "null"

InitialSetup ==
    [exam |-> NotChosen, subject |-> NotChosen, topic |-> "",
     level |-> NotChosen, isMergingTopics |-> FALSE, mergeTopic |-> "",
     error |-> ""]

(***************************************************************************)
(* localStorage and the serialized history  (App.tsx 23-40)                *)
(***************************************************************************)
\* the entry is absent: getItem gives null
Absent == [present |-> FALSE, syntax |-> "none", items |-> <<>>]

\* the entry is a text: an array of items, the text null, the empty text, or a
\* text that is not JSON
StoredText(syntax, items) == [present |-> TRUE, syntax |-> syntax, items |-> items]

\* JSON.stringify(quizHistory), App.tsx 36: the items of an array are plain
\* data and are written as they are; any other value here is null
JSONstringify(shape, items) ==
    IF shape = "array" THEN StoredText("array", items)
                       ELSE StoredText("null", <<>>)

\* a variant that writes nothing when the history is empty
setItemUnlessEmpty(st, text) ==
    IF st.broken \/ text.items = <<>> THEN st ELSE [st EXCEPT !.entry = text]

\* localStorage.setItem('quizHistory', text), App.tsx 36: throws when the
\* storage cannot be written, and the catch block goes on (37-39)
setItem(st, text) ==
    IF st.broken THEN st ELSE [st EXCEPT !.entry = text]

\* App.tsx 24-31, the load effect: whether it threw, whether it called
\* setQuizHistory, and with what value
loadHistory(st) ==
    IF st.broken
    THEN [thrown |-> TRUE, set |-> FALSE, shape |-> "array", items |-> <<>>]
    ELSE IF ~st.entry.present \/ st.entry.syntax = "empty"
    THEN [thrown |-> FALSE, set |-> FALSE, shape |-> "array", items |-> <<>>]
    ELSE IF st.entry.syntax = "garbage"
    THEN [thrown |-> TRUE, set |-> FALSE, shape |-> "array", items |-> <<>>]
    ELSE IF st.entry.syntax = "null"
    THEN [thrown |-> FALSE, set |-> TRUE, shape |-> "null", items |-> <<>>]
    ELSE [thrown |-> FALSE, set |-> TRUE, shape |-> "array",
          items |-> st.entry.items]

\* a variant in which an error of the storage is not caught
storageErrorEscapesAlways == TRUE

\* App.tsx 29-31, 37-39: the catch blocks log the error and go on
storageErrorEscapes == FALSE

\* the storage after the mount effects of a first visit
FreshStorage == [entry |-> JSONstringify("array", <<>>), broken |-> FALSE]

AppInit ==
    /\ storage = FreshStorage
    /\ historyShape = "array"
    /\ crashed = FALSE
    /\ quizConfig = NoConfig
    /\ questions = <<>>
    /\ userAnswers = <<>>
    /\ incorrectAnswers = <<>>
    /\ quizState = "idle"
    /\ error = Null
    /\ isSubmitting = FALSE
    /\ isSubmittingRef = FALSE
    /\ quizHistory = <<>>
    /\ showHistory = FALSE
    /\ quizView = NoQuizView
    /\ resultsView = NoResultsView
    /\ callArgs = [f \in {"quiz", "suggestions", "improvement"} |-> NoArgs]
    /\ lastEvent = "mount"
    /\ setup = InitialSetup
    /\ prompt = NoPrompt
    /\ now = 0

(***************************************************************************)
(* Harness of withRetry alone: one invocation, any maxRetries, an          *)
(* operation that resolves or rejects freely on every call                 *)
(***************************************************************************)
RetryInit ==
    /\ retry = [s \in {"direct"} |-> NotInvoked]
    /\ gen = <<>>
    /\ AppInit

RetryInvoke ==
    /\ retry["direct"].pc = "idle"
    /\ \E n \in 0..MaxRetriesBound :
         retry' = [retry EXCEPT !["direct"] = withRetry(n)]
    /\ UNCHANGED <<gen, appVars>>

\* the pending provider call of slot s resolves with a value of V
ApiResolves(s, V) ==
    /\ retry[s].pc = "pending"
    /\ \E v \in V :
         retry' = [retry EXCEPT ![s] = returnValue(retry[s], v)]
    /\ UNCHANGED <<gen, appVars>>

\* the pending provider call of slot s rejects with a value of E
ApiRejectsWith(s, E) ==
    /\ retry[s].pc = "pending"
    /\ \E e \in E :
         retry' = [retry EXCEPT ![s] = catchError(retry[s], e)]
    /\ UNCHANGED <<gen, appVars>>

ApiRejects(s) == ApiRejectsWith(s, ThrownValues)

\* the backoff timer of slot s fires
BackoffElapsed(s) ==
    /\ retry[s].pc = "waiting"
    /\ retry' = [retry EXCEPT ![s] = timerFired(retry[s])]
    /\ UNCHANGED <<gen, appVars>>

RetryNext ==
    \/ RetryInvoke
    \/ ApiResolves("direct", HarnessValues)
    \/ ApiRejects("direct")
    \/ BackoffElapsed("direct")

RetrySpec == RetryInit /\ [][RetryNext]_vars

\* the event loop runs every ready continuation and every due timer, and the
\* operation always completes
RetryFairSpec == RetrySpec /\ WF_vars(RetryNext)

(***************************************************************************)
(* The provider's answers.  response.text is a text or undefined.  In a    *)
(* JSON text the pieces "[", "]", "{", "}" are themselves, a piece of      *)
(* ItemTokens stands for one serialized question object and a piece of     *)
(* MemberTokens for one serialized member of an object.                    *)
(***************************************************************************)
ResponseText(t)  == [kind |-> "response", name |-> "text", message |-> t]
ResponseNoText   == [kind |-> "response", name |-> "undefined", message |-> <<>>]

ItemTokens   == {"Q1", "Q2", "Q3"}

\* the question object a piece of ItemTokens is the serialization of.  The
\* response schema (quizSchema, 52-95) requires the fields but bounds neither
\* the number of options nor the index: Q3 has three options and index 4.
ParseItem(token) ==
    CASE token = "Q1" ->
           [question |-> "Q1", options |-> <<"a", "b", "c", "d">>,
            correctAnswerIndex |-> 1]
      [] token = "Q2" ->
           [question |-> "Q2", options |-> <<"e", "f", "g", "h">>,
            correctAnswerIndex |-> 3]
      [] token = "Q3" ->
           [question |-> "Q3", options |-> <<"i", "j", "k">>,
            correctAnswerIndex |-> 4]
MemberTokens == {"books:[B]", "youtube:[Y]", "youtube:null", "topicsToImprove:[T]"}

MemberName(m) ==
    CASE m = "books:[B]"           -> "books"
      [] m = "youtube:[Y]"         -> "youtube"
      [] m = "youtube:null"        -> "youtube"
      [] m = "topicsToImprove:[T]" -> "topicsToImprove"

MemberTruthy(m) == m # "youtube:null"

ProviderResponses ==
    { ResponseText(<<"[", "Q1", "Q2", "]">>),
      ResponseText(<<" ", "[", "Q1", "]", "\n">>),
      ResponseText(<<"[", "]">>),
      ResponseText(<<"[", "Q3", "]">>),
      ResponseText(<<"{", "books:[B]", "youtube:[Y]", "}">>),
      ResponseText(<<"{", "books:[B]", "}">>),
      ResponseText(<<"{", "youtube:[Y]", "}">>),
      ResponseText(<<"{", "books:[B]", "youtube:null", "}">>),
      ResponseText(<<"{", "topicsToImprove:[T]", "}", " ">>),
      ResponseText(<<"{", "}">>),
      ResponseText(<<"n", "u", "l", "l">>),
      ResponseText(<<"S", "o", "r", "r", "y">>),
      ResponseNoText }

(***************************************************************************)
(* JavaScript values produced by JSON.parse                                *)
(***************************************************************************)
IsArray(v)        == v.t = "array"                      \* Array.isArray
Truthy(v)         == v.t \in {"array", "object"}
FieldTruthy(v, f) == v.t = "object" /\ f \in v.truthy   \* !!v.f
HasField(v, f)    == v.t = "object" /\ f \in v.present

Whitespace == {" ", "\n"}

\* String.prototype.trim
RECURSIVE trimStart(_)
trimStart(t) ==
    IF t # <<>> /\ Head(t) \in Whitespace THEN trimStart(Tail(t)) ELSE t
RECURSIVE trimEnd(_)
trimEnd(t) ==
    IF t # <<>> /\ t[Len(t)] \in Whitespace
    THEN trimEnd(SubSeq(t, 1, Len(t) - 1)) ELSE t
trim(t) == trimEnd(trimStart(t))

Inner(t) == SubSeq(t, 2, Len(t) - 1)
Range(q) == { q[i] : i \in 1..Len(q) }

\* JSON.parse: the value, or ok = FALSE where it throws a SyntaxError
JSONparse(t) ==
    IF Len(t) >= 2 /\ t[1] = "[" /\ t[Len(t)] = "]" /\ Range(Inner(t)) \subseteq ItemTokens
    THEN [ok |-> TRUE,
          value |-> JsArray([i \in 1..Len(Inner(t)) |-> ParseItem(Inner(t)[i])])]
    ELSE IF Len(t) >= 2 /\ t[1] = "{" /\ t[Len(t)] = "}"
            /\ Range(Inner(t)) \subseteq MemberTokens
    THEN [ok |-> TRUE,
          value |-> JsObject({ MemberName(m) : m \in Range(Inner(t)) },
                             { MemberName(m) : m \in { x \in Range(Inner(t)) : MemberTruthy(x) } })]
    ELSE IF t = <<"n", "u", "l", "l">>
    THEN [ok |-> TRUE, value |-> JsNull]
    ELSE [ok |-> FALSE, value |-> JsUndefined]

SyntaxErrorMessage == <<"Unexpected token in JSON">>
TypeErrorMessage   == <<"Cannot read properties of undefined (reading 'trim')">>

(***************************************************************************)
(* generateQuiz, generateSuggestions, generateImprovementSuggestions       *)
(* (geminiService.ts 133-161, 268-295, 297-324)                            *)
(***************************************************************************)
Fns == {"quiz", "suggestions", "improvement"}

DefaultMaxRetries == 3

QuizFormatMessage        == <<"AI returned an invalid quiz format.">>
SuggestionFormatMessage  == <<"AI returned an invalid suggestion format.">>
ImprovementFormatMessage == <<"AI returned an invalid improvement topics format.">>

FormatMessage(f) ==
    CASE f = "quiz"        -> QuizFormatMessage
      [] f = "suggestions" -> SuggestionFormatMessage
      [] f = "improvement" -> ImprovementFormatMessage

UnknownGenerationMessage(f) ==
    CASE f = "quiz"        -> <<"An unknown error occurred while generating the quiz.">>
      [] f = "suggestions" -> <<"An unknown error occurred while fetching learning suggestions.">>
      [] f = "improvement" -> <<"An unknown error occurred while fetching improvement topics.">>

\* line 148
invalidQuiz(v) == ~IsArray(v) \/ Len(v.items) = 0

\* line 283
invalidSuggestionsBooksOnly(v) == ~Truthy(v) \/ ~FieldTruthy(v, "books")
invalidSuggestions(v) ==
    ~Truthy(v) \/ ~FieldTruthy(v, "books") \/ ~FieldTruthy(v, "youtube")

\* line 312
invalidImprovement(v) == ~Truthy(v) \/ ~FieldTruthy(v, "topicsToImprove")

invalidFormat(f, v) ==
    CASE f = "quiz"        -> invalidQuiz(v)
      [] f = "suggestions" -> invalidSuggestions(v)
      [] f = "improvement" -> invalidImprovement(v)

\* lines 145-152 (280-287, 309-316): the statements of the try block that
\* follow the await; thrown = NoValue when they run to the return
processResponse(f, response) ==
    IF response.name = "undefined"
    THEN [thrown |-> ErrorObject("TypeError", TypeErrorMessage), value |-> JsUndefined]
    ELSE LET jsonText == trim(response.message)
             parsed   == JSONparse(jsonText)
         IN  IF ~parsed.ok
             THEN [thrown |-> ErrorObject("SyntaxError", SyntaxErrorMessage),
                   value |-> JsUndefined]
             ELSE IF invalidFormat(f, parsed.value)
             THEN [thrown |-> ErrorObject("Error", FormatMessage(f)),
                   value |-> JsUndefined]
             ELSE [thrown |-> NoValue, value |-> parsed.value]

\* lines 153-160 (288-294, 317-323): the catch block
rethrowRewrapped(f, err) ==
    ErrorObject("Error", UnknownGenerationMessage(f))
rethrow(f, err) ==
    IF IsError(err) THEN err
    ELSE ErrorObject("Error", UnknownGenerationMessage(f))

\* a call of a generation function that has not been made
NotCalled ==
    [pc |-> "idle", result |-> JsUndefined, error |-> NoValue]

GenRaise(e)  == [pc |-> "raised", result |-> JsUndefined, error |-> e]
GenReturn(v) == [pc |-> "returned", result |-> v, error |-> NoValue]

\* a variant that asks the provider again when the content is unusable
settleRetryingContent(f, w) ==
    IF Returned(w) /\ processResponse(f, w.result).thrown # NoValue
    THEN [gen |-> [pc |-> "awaiting", result |-> JsUndefined, error |-> NoValue],
          retry |-> timerFired(w)]
    ELSE IF Raised(w) THEN [gen |-> GenRaise(rethrow(f, w.error)), retry |-> w]
    ELSE [gen |-> GenReturn(processResponse(f, w.result).value), retry |-> w]

\* lines 136-160: the function resumes when withRetry has finished with w;
\* gives the settled call and the withRetry invocation it leaves behind
settle(f, w) ==
    IF Raised(w)
    THEN [gen |-> GenRaise(rethrow(f, w.error)), retry |-> w]
    ELSE LET o == processResponse(f, w.result)
         IN  IF o.thrown # NoValue
             THEN [gen |-> GenRaise(rethrow(f, o.thrown)), retry |-> w]
             ELSE [gen |-> GenReturn(o.value), retry |-> w]

(***************************************************************************)
(* Harness of the generation functions: one call of one of them, the       *)
(* provider answering or failing freely                                    *)
(***************************************************************************)
GenInit ==
    /\ retry = [f \in Fns |-> NotInvoked]
    /\ gen = [f \in Fns |-> NotCalled]
    /\ AppInit

\* lines 134-143: the prompt is built and withRetry entered
GenCall(f) ==
    /\ \A g \in Fns : gen[g].pc = "idle"
    /\ gen' = [gen EXCEPT ![f].pc = "awaiting"]
    /\ retry' = [retry EXCEPT ![f] = withRetry(DefaultMaxRetries)]
    /\ UNCHANGED appVars

GenSettle(f) ==
    /\ gen[f].pc = "awaiting"
    /\ Finished(retry[f])
    /\ gen' = [gen EXCEPT ![f] = settle(f, retry[f]).gen]
    /\ retry' = [retry EXCEPT ![f] = settle(f, retry[f]).retry]
    /\ UNCHANGED appVars

GenNext ==
    \/ \E f \in Fns : GenCall(f)
    \/ \E f \in Fns : ApiResolves(f, ProviderResponses)
    \/ \E f \in Fns : ApiRejects(f)
    \/ \E f \in Fns : BackoffElapsed(f)
    \/ \E f \in Fns : GenSettle(f)

GenSpec == GenInit /\ [][GenNext]_vars

(***************************************************************************)
(* The quiz prompt (geminiService.ts 97-131).  A text is the sequence of   *)
(* its pieces: the literals of the template and the values put in          *)
(***************************************************************************)
\* line 98: the opening asks for a quiz of 20 questions
Opening ==
    "Generate a 20-question multiple-choice quiz for a student preparing for the "

FoundationalConcepts == "Foundational Concepts"

PrimaryTopicIs == " The primary topic is \""

WholeSyllabus ==
    " The quiz should cover a mix of the most important, foundational, and frequently tested concepts from the entire "

SecondaryTopicIs ==
    " Please also incorporate concepts from the secondary topic \""

QuestionLabel == "- Question: \""
IncorrectLabel == "\"\n  My incorrect answer: \""
CorrectLabel == "\"\n  Correct answer: \""

\* a variant that names the topic typed whatever it is
topicSentenceAlwaysPrimary(config) == <<PrimaryTopicIs, config.topic, "\".">>

\* lines 100-104
topicSentence(config) ==
    IF config.topic = FoundationalConcepts
    THEN <<WholeSyllabus, config.subject, " syllabus for ", config.exam, ".">>
    ELSE <<PrimaryTopicIs, config.topic, "\".">>

\* line 109, if (config.mergeTopic): the field is there and is not empty
mergeTopicSet(config) == config.mergeTopic \notin {"none", ""}

\* lines 109-111
mergeSentence(config) ==
    IF mergeTopicSet(config)
    THEN <<SecondaryTopicIs, config.mergeTopic,
           "\" to create some multi-concept questions that test the integration of both topics.">>
    ELSE <<>>

\* ${ans.options[i]} of line 124: an index with no option prints undefined
optionText(options, i) ==
    IF i + 1 \in DOMAIN options THEN options[i + 1] ELSE "undefined"

\* line 124: the three lines of one mistake
mistakeLines(ans) ==
    <<QuestionLabel, ans.question,
      IncorrectLabel, optionText(ans.options, ans.userAnswerIndex),
      CorrectLabel, optionText(ans.options, ans.correctAnswerIndex), "\"">>

\* lines 123-125: map(...).join('\n')
RECURSIVE joinMistakes(_)
joinMistakes(list) ==
    IF Len(list) = 0 THEN <<>>
    ELSE IF Len(list) = 1 THEN mistakeLines(list[1])
    ELSE mistakeLines(list[1]) \o <<"\n">> \o joinMistakes(Tail(list))

\* lines 122-128
mistakesSection(incorrect) ==
    IF incorrect.passed /\ Len(incorrect.list) > 0
    THEN <<"\nI previously took a quiz on this topic and made these mistakes:\n\n">>
           \o joinMistakes(incorrect.list)
           \o <<"\n\nPlease generate a new, different quiz that specifically targets the concepts I'm struggling with based on these mistakes. The questions should be related but not identical.">>
    ELSE <<>>

\* lines 97-131; the guidelines of lines 112-119 are the same for every quiz
generateQuizPrompt(config, incorrect) ==
    <<Opening, config.exam, " exam. The subject is ", config.subject, ".">>
      \o topicSentence(config)
      \o <<" The difficulty should be appropriate for ", config.level, ".">>
      \o mergeSentence(config)
      \o <<"\n- For 'Level 1: Advanced', ... - For 'Level 2: Mains/NEET', ... - For 'Level 3: Boards', ... LaTeX ... 'sourceHint' ... 'resourceLink' ... Do not invent URLs.\n">>
      \o mistakesSection(incorrect)

(***************************************************************************)
(* The quiz session controller (App.tsx)                                   *)
(***************************************************************************)
Config(exam, subject, topic, level) ==
    [exam |-> exam, subject |-> subject, topic |-> topic, level |-> level,
     mergeTopic |-> "none"]

\* the configurations the setup form submits in this model
Configs ==
    { Config("JEE", "Physics", "Kinematics", "Level 3: Boards"),
      Config("NEET", "Biology", "Foundational Concepts", "Level 2: Mains/NEET") }

UnknownAppMessage == <<"An unknown error occurred.">>

\* a variant that shows the same message for every failure
caughtMessageUnknown(e) == Message(UnknownAppMessage)

\* App.tsx 57
caughtMessage(e) ==
    IF IsError(e) THEN Message(e.message) ELSE Message(UnknownAppMessage)

\* a variant without the guard
neverSubmitting == FALSE

\* App.tsx 43: the guard of startQuiz
alreadySubmitting == isSubmittingRef

\* App.tsx 51: the second argument of generateQuiz
retryMistakesNever(isRetry, incorrect) == Undefined

retryMistakes(isRetry, incorrect) ==
    IF isRetry THEN Passed(incorrect) ELSE Undefined

\* App.tsx 42-51: startQuiz up to its await; generateQuiz builds the prompt
\* and enters withRetry before startQuiz is suspended.  The view on screen is
\* replaced by the spinner (113-116); the calls of an unmounted ResultsView
\* set no state any more and are no longer tracked.
startQuiz(config, isRetry) ==
    IF alreadySubmitting
    THEN /\ lastEvent' = "dropped"
         /\ UNCHANGED <<retry, gen, quizConfig, questions, userAnswers,
                        incorrectAnswers, quizState, error, isSubmitting,
                        isSubmittingRef, quizHistory, showHistory, quizView,
                        resultsView, callArgs, storeVars, formVars, now>>
    ELSE /\ isSubmittingRef' = TRUE
         /\ isSubmitting' = TRUE
         /\ quizConfig' = config
         /\ quizState' = "loading"
         /\ error' = Null
         /\ showHistory' = FALSE
         /\ gen' = [f \in Fns |-> IF f = "quiz"
                                  THEN [NotCalled EXCEPT !.pc = "awaiting"]
                                  ELSE NotCalled]
         /\ retry' = [f \in Fns |-> IF f = "quiz"
                                    THEN withRetry(DefaultMaxRetries)
                                    ELSE NotInvoked]
         /\ callArgs' = [callArgs EXCEPT !["quiz"] =
                           [config |-> config,
                            incorrectAnswers |->
                               retryMistakes(isRetry, incorrectAnswers)]]
         /\ quizView' = NoQuizView
         /\ resultsView' = NoResultsView
         /\ prompt' = generateQuizPrompt(
                         config, retryMistakes(isRetry, incorrectAnswers))
         /\ setup' = InitialSetup
         /\ lastEvent' = IF isRetry THEN "handleTryAgain" ELSE "startQuiz"
         /\ UNCHANGED <<questions, userAnswers, incorrectAnswers, quizHistory,
                        storeVars, now>>

\* App.tsx 113-148, renderContent: the view on screen.  Nothing is left on
\* screen once an error has escaped, and no event is handled before the mount
\* effects have run and the loaded history is rendered.
renderContent ==
    CASE crashed                -> "nothing"
      [] lastEvent \in {"render", "loaded"} -> "FirstRender"
      [] quizState = "loading"  -> "LoadingSpinner"
      [] quizState = "active"   -> IF quizConfig # NoConfig THEN "QuizView"
                                                            ELSE "nothing"
      [] quizState = "finished" -> IF quizConfig # NoConfig THEN "ResultsView"
                                                            ELSE "nothing"
      [] OTHER -> IF showHistory THEN "HistoryView" ELSE "QuizSetup"

\* App.tsx 142-146: the setup form submits a config (its buttons are
\* disabled while isLoading)
SetupStartsQuiz ==
    /\ renderContent = "QuizSetup"
    /\ ~isSubmitting
    /\ Len(quizHistory) < MaxHistory
    /\ now < MaxCompletions
    /\ \E config \in Configs : startQuiz(config, FALSE)

\* a start request handled while the previous one is pending: the click of a
\* view that has not been replaced by the spinner yet
DuplicateStartRequest ==
    /\ isSubmittingRef
    /\ \E config \in Configs, isRetry \in BOOLEAN : startQuiz(config, isRetry)

\* geminiService.ts 136-160: generateQuiz resumes after withRetry
GenerateQuizSettles ==
    /\ gen["quiz"].pc = "awaiting"
    /\ Finished(retry["quiz"])
    /\ gen' = [gen EXCEPT !["quiz"] = settle("quiz", retry["quiz"]).gen]
    /\ retry' = [retry EXCEPT !["quiz"] = settle("quiz", retry["quiz"]).retry]
    /\ UNCHANGED appVars

\* QuizView 8-21 (the seconds are scaled down to ticks)
getTimeLimit(level) ==
    IF level \in {"Level 1: Advanced", "Level 3: Boards"}
    THEN LongTimeLimit ELSE ShortTimeLimit

\* QuizView 32-35: the state of a QuizView when it mounts
MountQuizView(qs, config) ==
    [mounted |-> TRUE, currentQuestionIndex |-> 0,
     selectedAnswers |-> [i \in 1..Len(qs) |-> NoAnswer],
     currentSelection |-> NoAnswer,
     timeLeft |-> getTimeLimit(config.level)]

\* a variant that shows the results of the previous quiz after a failure
stateAfterFailureFinished == "finished"

\* App.tsx 58
stateAfterFailure == "idle"

\* a variant that clears the guard at the end of the try block only
submittingAfterSuccessOnly(outcome) == outcome = "raised"

\* App.tsx 59-62, the finally block: isSubmitting and isSubmittingRef after
\* generateQuiz has settled with the outcome
submittingAfter(outcome) == FALSE

\* App.tsx 51-62: startQuiz resumes after generateQuiz
StartQuizResumes ==
    /\ isSubmittingRef
    /\ Finished(gen["quiz"])
    /\ IF gen["quiz"].pc = "returned"
       THEN /\ questions' = gen["quiz"].result.items
            /\ userAnswers' = <<>>
            /\ incorrectAnswers' = <<>>
            /\ quizState' = "active"
            /\ quizView' = MountQuizView(gen["quiz"].result.items, quizConfig)
            /\ UNCHANGED error
       ELSE /\ error' = caughtMessage(gen["quiz"].error)
            /\ quizState' = stateAfterFailure
            /\ UNCHANGED <<questions, userAnswers, incorrectAnswers, quizView>>
    /\ isSubmitting' = submittingAfter(gen["quiz"].pc)
    /\ isSubmittingRef' = submittingAfter(gen["quiz"].pc)
    /\ UNCHANGED <<quizConfig, gen, retry, quizHistory, showHistory,
                   resultsView, callArgs, lastEvent, storeVars, formVars, now>>

(***************************************************************************)
(* Completion of a quiz  (App.tsx 65-89)                                   *)
(***************************************************************************)
\* a variant that keeps the unattempted questions too
incorrectOfWithUnattempted(qs, answers) ==
    SelectSeq([i \in 1..Len(qs) |->
                 [question |-> qs[i].question, options |-> qs[i].options,
                  correctAnswerIndex |-> qs[i].correctAnswerIndex,
                  userAnswerIndex |-> answers[i]]],
              LAMBDA m : m.userAnswerIndex # m.correctAnswerIndex)

\* App.tsx 67-69
incorrectOf(qs, answers) ==
    SelectSeq([i \in 1..Len(qs) |->
                 [question |-> qs[i].question, options |-> qs[i].options,
                  correctAnswerIndex |-> qs[i].correctAnswerIndex,
                  userAnswerIndex |-> answers[i]]],
              LAMBDA m : /\ m.userAnswerIndex # NoAnswer
                         /\ m.userAnswerIndex # m.correctAnswerIndex)

\* App.tsx 72-74
scoreOf(qs, answers) ==
    Cardinality({i \in 1..Len(answers) : answers[i] = qs[i].correctAnswerIndex})

\* a variant that rounds down
roundedDown(score, n) == (100 * score) \div n

\* a variant that scales the quotient by 1000
roundedPerMille(score, n) == (2000 * score + n) \div (2 * n)

\* App.tsx 81, Math.round((score / n) * 100) for 0 <= score <= n, n > 0: the
\* integer nearest to the quotient, a half going up
roundedPercentage(score, n) == (200 * score + n) \div (2 * n)

\* a variant of the clock that gives the reading it gave before
DateNowAgain == now

\* Date.now() of App.tsx 78.  A reading is later than the one before it: a
\* provider call and the answering of a quiz lie between two completions.
\* Times are counted in completions.
DateNow == now + 1

\* App.tsx 77-84 (date, a second Date.now(), is left out)
newHistoryItem(config, qs, answers) ==
    [id |-> DateNow,
     config |-> config,
     score |-> scoreOf(qs, answers),
     totalQuestions |-> Len(qs),
     percentage |-> roundedPercentage(scoreOf(qs, answers), Len(qs))]

\* a variant of the completion that leaves the quiz on screen
handleQuizCompletionStayingActive(answers) ==
    /\ userAnswers' = answers
    /\ incorrectAnswers' = incorrectOf(questions, answers)
    /\ quizHistory' =
         IF quizConfig # NoConfig
         THEN <<newHistoryItem(quizConfig, questions, answers)>> \o quizHistory
         ELSE quizHistory
    /\ quizState' = "active"

\* a variant that appends the new item
historyAppended(item, prevHistory) == prevHistory \o <<item>>

\* App.tsx 85
historyUpdater(item, prevHistory) == <<item>> \o prevHistory

\* a variant that fetches suggestions for every finished quiz
shouldFetchAlways(incorrect) == TRUE

\* ResultsView.tsx 32: the guard of the fetch
shouldFetch(incorrect) == Len(incorrect) > 0

\* ResultsView.tsx 19-22, 31-51: the state of a ResultsView once its effect
\* has run
MountResultsView(incorrect) ==
    [NoResultsView EXCEPT !.mounted = TRUE,
                          !.isLoadingSuggestions = shouldFetch(incorrect),
                          !.fetching = shouldFetch(incorrect)]

\* App.tsx 65-89, handleQuizCompletion
handleQuizCompletion(answers) ==
    /\ userAnswers' = answers
    /\ incorrectAnswers' = incorrectOf(questions, answers)
    /\ quizHistory' =
         IF quizConfig # NoConfig
         THEN historyUpdater(newHistoryItem(quizConfig, questions, answers),
                             quizHistory)
         ELSE quizHistory
    /\ quizState' = "finished"

\* the QuizView hands over the answers; the ResultsView replaces it and its
\* effect issues both suggestion calls when there are incorrect answers; the
\* save effect (App.tsx 34-40) writes the new history
QuizCompletes(answers) ==
    IF historyShape # "array"
    THEN \* App.tsx 85: the updater spreads a value that is not iterable
         /\ crashed' = TRUE
         /\ UNCHANGED <<retry, gen, quizConfig, questions, userAnswers,
                        incorrectAnswers, quizState, error, isSubmitting,
                        isSubmittingRef, quizHistory, showHistory, quizView,
                        resultsView, callArgs, storage, historyShape,
                        formVars, now>>
    ELSE
    LET incorrect == incorrectOf(questions, answers)
        args == [config |-> quizConfig, incorrectAnswers |-> Passed(incorrect)]
    IN  /\ handleQuizCompletion(answers)
        /\ storage' = setItem(storage, JSONstringify("array", quizHistory'))
        /\ crashed' = (storage.broken /\ storageErrorEscapes)
        /\ now' = DateNow
        /\ UNCHANGED <<historyShape, formVars>>
        /\ quizView' = NoQuizView
        /\ resultsView' = MountResultsView(incorrect)
        /\ IF shouldFetch(incorrect)
           THEN /\ gen' = [gen EXCEPT
                     !["suggestions"] = [NotCalled EXCEPT !.pc = "awaiting"],
                     !["improvement"] = [NotCalled EXCEPT !.pc = "awaiting"]]
                /\ retry' = [retry EXCEPT
                     !["suggestions"] = withRetry(DefaultMaxRetries),
                     !["improvement"] = withRetry(DefaultMaxRetries)]
                /\ callArgs' = [callArgs EXCEPT !["suggestions"] = args,
                                                !["improvement"] = args]
           ELSE UNCHANGED <<gen, retry, callArgs>>
        /\ UNCHANGED <<quizConfig, questions, error, isSubmitting,
                       isSubmittingRef, showHistory>>

(***************************************************************************)
(* QuizView                                                                *)
(***************************************************************************)
\* QuizView 76-81, saveCurrentAnswer: the answers with the selection stored
savedAnswers(v) ==
    [v.selectedAnswers EXCEPT ![v.currentQuestionIndex + 1] = v.currentSelection]

\* QuizView 68-70: the effect that reloads the selection of the question shown
showQuestion(v, answers, index) ==
    [v EXCEPT !.selectedAnswers = answers,
              !.currentQuestionIndex = index,
              !.currentSelection = answers[index + 1]]

\* the option the user clicks in this model: the correct one of Q1 and an
\* incorrect one of Q2 and Q3
ClickedOptions == {1}

\* QuizView 72-74, 140-146: an option of the question shown is clicked
handleOptionSelect ==
    /\ renderContent = "QuizView"
    /\ \E optionIndex \in ClickedOptions \cap
            0..(Len(questions[quizView.currentQuestionIndex + 1].options) - 1) :
         quizView' = [quizView EXCEPT !.currentSelection = optionIndex]
    /\ UNCHANGED <<retry, gen, quizConfig, questions, userAnswers,
                   incorrectAnswers, quizState, error, isSubmitting,
                   isSubmittingRef, quizHistory, showHistory, resultsView,
                   callArgs, lastEvent, storeVars, formVars, now>>

\* QuizView 83-90
handleNext ==
    /\ renderContent = "QuizView"
    /\ IF quizView.currentQuestionIndex < Len(questions) - 1
       THEN /\ quizView' = showQuestion(quizView, savedAnswers(quizView),
                                        quizView.currentQuestionIndex + 1)
            /\ UNCHANGED <<retry, gen, quizConfig, questions, userAnswers,
                           incorrectAnswers, quizState, error, isSubmitting,
                           isSubmittingRef, quizHistory, showHistory,
                           resultsView, callArgs, lastEvent, storeVars, formVars, now>>
       ELSE /\ QuizCompletes(savedAnswers(quizView))
            /\ lastEvent' = "handleQuizCompletion"

\* QuizView 92-97
handlePrevious ==
    /\ renderContent = "QuizView"
    /\ quizView.currentQuestionIndex > 0
    /\ quizView' = showQuestion(quizView, savedAnswers(quizView),
                                quizView.currentQuestionIndex - 1)
    /\ UNCHANGED <<retry, gen, quizConfig, questions, userAnswers,
                   incorrectAnswers, quizState, error, isSubmitting,
                   isSubmittingRef, quizHistory, showHistory, resultsView,
                   callArgs, lastEvent, storeVars, formVars, now>>

\* QuizView 99-104, the user confirming
handleEndQuiz ==
    /\ renderContent = "QuizView"
    /\ QuizCompletes(savedAnswers(quizView))
    /\ lastEvent' = "handleQuizCompletion"

\* a variant that hands over the saved answers without the selection
timerAnswersSavedOnly(v) == v.selectedAnswers

\* QuizView 55-57: the answers the expired timer hands over, read from
\* answersRef, which every render brings up to date (45-48)
timerAnswers(v) ==
    [v.selectedAnswers EXCEPT ![v.currentQuestionIndex + 1] = v.currentSelection]

\* QuizView 50-66: the interval fires
TimerTick ==
    /\ renderContent = "QuizView"
    /\ quizView.mounted
    /\ IF quizView.timeLeft <= 1
       THEN /\ QuizCompletes(timerAnswers(quizView))
            /\ lastEvent' = "timer"
       ELSE /\ quizView' = [quizView EXCEPT !.timeLeft = @ - 1]
            /\ UNCHANGED <<retry, gen, quizConfig, questions, userAnswers,
                           incorrectAnswers, quizState, error, isSubmitting,
                           isSubmittingRef, quizHistory, showHistory,
                           resultsView, callArgs, lastEvent, storeVars, formVars, now>>

(***************************************************************************)
(* ResultsView and HistoryView                                             *)
(***************************************************************************)
\* App.tsx 91-95, ResultsView.tsx 113-118
handleTryAgain ==
    /\ renderContent = "ResultsView"
    /\ ~isSubmitting
    /\ Len(quizHistory) < MaxHistory
    /\ now < MaxCompletions
    /\ quizConfig # NoConfig
    /\ startQuiz(quizConfig, TRUE)

\* a variant that leaves the questions of the finished quiz in place
handleNewTopicKeepingQuestions ==
    /\ renderContent = "ResultsView"
    /\ ~isSubmitting
    /\ quizConfig' = NoConfig
    /\ userAnswers' = <<>>
    /\ incorrectAnswers' = <<>>
    /\ quizState' = "idle"
    /\ error' = Null
    /\ showHistory' = FALSE
    /\ resultsView' = NoResultsView
    /\ gen' = [f \in Fns |-> NotCalled]
    /\ retry' = [f \in Fns |-> NotInvoked]
    /\ lastEvent' = "handleNewTopic"
    /\ UNCHANGED <<questions, isSubmitting, isSubmittingRef, quizHistory,
                   quizView, callArgs, storeVars, formVars, now>>

\* App.tsx 97-105, ResultsView.tsx 120-125
handleNewTopic ==
    /\ renderContent = "ResultsView"
    /\ ~isSubmitting
    /\ quizConfig' = NoConfig
    /\ questions' = <<>>
    /\ userAnswers' = <<>>
    /\ incorrectAnswers' = <<>>
    /\ quizState' = "idle"
    /\ error' = Null
    /\ showHistory' = FALSE
    /\ resultsView' = NoResultsView
    /\ gen' = [f \in Fns |-> NotCalled]
    /\ retry' = [f \in Fns |-> NotInvoked]
    /\ lastEvent' = "handleNewTopic"
    /\ UNCHANGED <<isSubmitting, isSubmittingRef, quizHistory, quizView,
                   callArgs, storeVars, formVars, now>>

SuggestionFns == {"suggestions", "improvement"}

\* ResultsView.tsx 34, 43-45: the message the fetch keeps of a rejection
suggestionMessage(e) ==
    IF IsError(e) THEN Message(e.message)
    ELSE Message(<<"Could not load suggestions.">>)

\* a variant of the fetch that shows the result of the call that returned
\* when the other has raised
FetchResumesShowingPartial ==
    /\ resultsView.fetching
    /\ \/ /\ \A f \in SuggestionFns : gen[f].pc = "returned"
          /\ resultsView' =
               [resultsView EXCEPT
                  !.suggestions = gen["suggestions"].result,
                  !.improvementTopics = gen["improvement"].result,
                  !.isLoadingSuggestions = FALSE,
                  !.fetching = FALSE]
       \/ \E f \in SuggestionFns :
            /\ gen[f].pc = "raised"
            /\ resultsView' =
                 [resultsView EXCEPT
                    !.suggestions =
                        IF gen["suggestions"].pc = "returned"
                        THEN gen["suggestions"].result ELSE @,
                    !.improvementTopics =
                        IF gen["improvement"].pc = "returned"
                        THEN gen["improvement"].result ELSE @,
                    !.suggestionError = suggestionMessage(gen[f].error),
                    !.isLoadingSuggestions = FALSE,
                    !.fetching = FALSE]
    /\ UNCHANGED <<retry, gen, quizConfig, questions, userAnswers,
                   incorrectAnswers, quizState, error, isSubmitting,
                   isSubmittingRef, quizHistory, showHistory, quizView,
                   callArgs, lastEvent, storeVars, formVars, now>>

\* ResultsView.tsx 37-47: fetchAllSuggestions resumes when Promise.all has
\* settled, which is when both calls have returned or one has raised
FetchResumes ==
    /\ resultsView.fetching
    /\ \/ /\ \A f \in SuggestionFns : gen[f].pc = "returned"
          /\ resultsView' =
               [resultsView EXCEPT
                  !.suggestions = gen["suggestions"].result,
                  !.improvementTopics = gen["improvement"].result,
                  !.isLoadingSuggestions = FALSE,
                  !.fetching = FALSE]
       \/ \E f \in SuggestionFns :
            /\ gen[f].pc = "raised"
            /\ resultsView' =
                 [resultsView EXCEPT
                    !.suggestionError = suggestionMessage(gen[f].error),
                    !.isLoadingSuggestions = FALSE,
                    !.fetching = FALSE]
    /\ UNCHANGED <<retry, gen, quizConfig, questions, userAnswers,
                   incorrectAnswers, quizState, error, isSubmitting,
                   isSubmittingRef, quizHistory, showHistory, quizView,
                   callArgs, lastEvent, storeVars, formVars, now>>

\* App.tsx 145, onShowHistory; HistoryView.tsx reads history.length, which
\* throws when the history is null
ShowHistory ==
    /\ renderContent = "QuizSetup"
    /\ showHistory' = TRUE
    /\ crashed' = (historyShape # "array")
    /\ setup' = InitialSetup
    /\ UNCHANGED <<retry, gen, quizConfig, questions, userAnswers,
                   incorrectAnswers, quizState, error, isSubmitting,
                   isSubmittingRef, quizHistory, quizView, resultsView,
                   callArgs, lastEvent, storage, historyShape, prompt, now>>

\* App.tsx 139, onGoBack
GoBack ==
    /\ renderContent = "HistoryView"
    /\ showHistory' = FALSE
    /\ UNCHANGED <<retry, gen, quizConfig, questions, userAnswers,
                   incorrectAnswers, quizState, error, isSubmitting,
                   isSubmittingRef, quizHistory, quizView, resultsView,
                   callArgs, lastEvent, storeVars, formVars, now>>

\* App.tsx 107-111, the user confirming; HistoryView.tsx shows the button
\* when the history is not empty
handleClearHistory ==
    /\ renderContent = "HistoryView"
    /\ Len(quizHistory) > 0
    /\ quizHistory' = <<>>
    /\ storage' = setItem(storage, JSONstringify("array", <<>>))
    /\ crashed' = (storage.broken /\ storageErrorEscapes)
    /\ lastEvent' = "handleClearHistory"
    /\ UNCHANGED <<retry, gen, quizConfig, questions, userAnswers,
                   incorrectAnswers, quizState, error, isSubmitting,
                   isSubmittingRef, showHistory, quizView, resultsView,
                   callArgs, historyShape, formVars, now>>

(***************************************************************************)
(* The application: the user acting on the view shown, the provider        *)
(* answering or failing                                                    *)
(***************************************************************************)
\* the provider's answers to a quiz prompt in this model
QuizResponses ==
    { ResponseText(<<"[", "Q1", "Q2", "]">>),
      ResponseText(<<"[", "Q3", "]">>),
      ResponseText(<<"[", "]">>),
      ResponseText(<<"S", "o", "r", "r", "y">>) }

\* the provider's answers to the two suggestion prompts in this model
SuggestionResponses ==
    { ResponseText(<<"{", "books:[B]", "youtube:[Y]", "}">>),
      ResponseText(<<"{", "topicsToImprove:[T]", "}", " ">>) }

\* the provider's failures in this model: a transient one and another
QuizFailures == { ErrorObject("Error", Msg503), ErrorObject("Error", MsgQuota) }
SuggestionFailures == { ErrorObject("Error", MsgQuota) }

Init ==
    /\ retry = [f \in Fns |-> NotInvoked]
    /\ gen = [f \in Fns |-> NotCalled]
    /\ AppInit

Next ==
    \/ SetupStartsQuiz
    \/ DuplicateStartRequest
    \/ ApiResolves("quiz", QuizResponses)
    \/ ApiRejectsWith("quiz", QuizFailures)
    \/ BackoffElapsed("quiz")
    \/ GenerateQuizSettles
    \/ StartQuizResumes
    \/ handleOptionSelect
    \/ handleNext
    \/ handlePrevious
    \/ handleEndQuiz
    \/ TimerTick
    \/ handleTryAgain
    \/ handleNewTopic
    \/ \E f \in SuggestionFns : ApiResolves(f, SuggestionResponses)
    \/ \E f \in SuggestionFns : ApiRejectsWith(f, SuggestionFailures)
    \/ \E f \in SuggestionFns : GenSettle(f)
    \/ FetchResumes
    \/ ShowHistory
    \/ GoBack
    \/ handleClearHistory

Spec == Init /\ [][Next]_vars

(***************************************************************************)
(* Harness of handleQuizCompletion: a quiz of any question set up to       *)
(* MaxQuestions is active and any array of answers is handed over          *)
(***************************************************************************)
RECURSIVE SeqsOf(_, _)
SeqsOf(S, n) ==
    IF n = 0 THEN {<<>>}
    ELSE {Append(s, x) : s \in SeqsOf(S, n - 1), x \in S}

QuestionSets ==
    UNION {SeqsOf({ParseItem(t) : t \in ItemTokens}, n) : n \in 1..MaxQuestions}

AnswerValues == {NoAnswer} \cup (0..3)

ScoreInit ==
    /\ retry = [f \in Fns |-> NotInvoked]
    /\ gen = [f \in Fns |-> NotCalled]
    /\ quizConfig \in Configs
    /\ questions \in QuestionSets
    /\ userAnswers = <<>>
    /\ incorrectAnswers = <<>>
    /\ quizState = "active"
    /\ error = Null
    /\ isSubmitting = FALSE
    /\ isSubmittingRef = FALSE
    /\ quizHistory = <<>>
    /\ showHistory = FALSE
    /\ quizView = MountQuizView(questions, quizConfig)
    /\ resultsView = NoResultsView
    /\ callArgs = [f \in Fns |-> NoArgs]
    /\ lastEvent = "startQuiz"
    /\ storage = FreshStorage
    /\ historyShape = "array"
    /\ crashed = FALSE
    /\ setup = InitialSetup
    /\ prompt = NoPrompt
    /\ now = 0

AnswersHandedOver ==
    /\ quizState = "active"
    /\ \E answers \in [1..Len(questions) -> AnswerValues] :
         QuizCompletes(answers)
    /\ lastEvent' = "handleQuizCompletion"

ScoreSpec == ScoreInit /\ [][AnswersHandedOver]_vars

(***************************************************************************)
(* The application started on a stored history: the entry found at startup *)
(* is any of StoredEntries, the storage may stop working at any time, and  *)
(* the provider answers quiz prompts only                                  *)
(***************************************************************************)
\* a history item left by an earlier visit
StoredItem ==
    [id |-> 0,
     config |-> Config("JEE", "Physics", "Kinematics", "Level 3: Boards"),
     score |-> 1, totalQuestions |-> 2, percentage |-> 50]

StoredEntries ==
    { Absent,
      StoredText("empty", <<>>),
      StoredText("garbage", <<>>),
      StoredText("null", <<>>),
      StoredText("array", <<>>),
      StoredText("array", <<StoredItem>>) }

\* App.tsx 23-40: the two mount effects, run after the first render.  The
\* load effect reads the entry and sets the history (a state update, rendered
\* later); the save effect of the first render, whose quizHistory is the
\* initial empty array, writes it over the entry.
Startup ==
    /\ lastEvent = "render"
    /\ LET r == loadHistory(storage)
       IN  /\ quizHistory' = r.items
           /\ historyShape' = r.shape
           /\ storage' = setItem(storage, JSONstringify("array", <<>>))
           /\ crashed' = ((r.thrown \/ storage.broken) /\ storageErrorEscapes)
           /\ lastEvent' = IF r.set THEN "loaded" ELSE "mount"
    /\ UNCHANGED <<retry, gen, quizConfig, questions, userAnswers,
                   incorrectAnswers, quizState, error, isSubmitting,
                   isSubmittingRef, showHistory, quizView, resultsView,
                   callArgs, formVars, now>>

\* App.tsx 34-40: the render of the loaded history runs the save effect
\* again (its dependency quizHistory has changed), which writes the loaded
\* history
LoadedHistoryRenders ==
    /\ lastEvent = "loaded"
    /\ storage' = setItem(storage, JSONstringify(historyShape, quizHistory))
    /\ crashed' = (crashed \/ (storage.broken /\ storageErrorEscapes))
    /\ lastEvent' = "mount"
    /\ UNCHANGED <<retry, gen, quizConfig, questions, userAnswers,
                   incorrectAnswers, quizState, error, isSubmitting,
                   isSubmittingRef, quizHistory, historyShape, showHistory,
                   quizView, resultsView, callArgs, formVars, now>>

\* from now on getItem and setItem throw
StorageBreaks ==
    /\ ~storage.broken
    /\ storage' = [storage EXCEPT !.broken = TRUE]
    /\ UNCHANGED <<retry, gen, quizConfig, questions, userAnswers,
                   incorrectAnswers, quizState, error, isSubmitting,
                   isSubmittingRef, quizHistory, showHistory, quizView,
                   resultsView, callArgs, lastEvent, historyShape, crashed,
                   formVars, now>>

StoreInit ==
    /\ retry = [f \in Fns |-> NotInvoked]
    /\ gen = [f \in Fns |-> NotCalled]
    /\ storage \in [entry : StoredEntries, broken : {FALSE}]
    /\ historyShape = "array"
    /\ crashed = FALSE
    /\ quizConfig = NoConfig
    /\ questions = <<>>
    /\ userAnswers = <<>>
    /\ incorrectAnswers = <<>>
    /\ quizState = "idle"
    /\ error = Null
    /\ isSubmitting = FALSE
    /\ isSubmittingRef = FALSE
    /\ quizHistory = <<>>
    /\ showHistory = FALSE
    /\ quizView = NoQuizView
    /\ resultsView = NoResultsView
    /\ callArgs = [f \in Fns |-> NoArgs]
    /\ lastEvent = "render"
    /\ setup = InitialSetup
    /\ prompt = NoPrompt
    /\ now = 0

StoreQuizResponses == { ResponseText(<<"[", "Q1", "Q2", "]">>) }
StoreQuizFailures == { ErrorObject("Error", MsgQuota) }

StoreNext ==
    \/ Startup
    \/ LoadedHistoryRenders
    \/ StorageBreaks
    \/ SetupStartsQuiz
    \/ ApiResolves("quiz", StoreQuizResponses)
    \/ ApiRejectsWith("quiz", StoreQuizFailures)
    \/ GenerateQuizSettles
    \/ StartQuizResumes
    \/ handleOptionSelect
    \/ handleNext
    \/ handlePrevious
    \/ handleEndQuiz
    \/ TimerTick
    \/ handleTryAgain
    \/ handleNewTopic
    \/ ShowHistory
    \/ GoBack
    \/ handleClearHistory

StoreSpec == StoreInit /\ [][StoreNext]_vars

(***************************************************************************)
(* The setup form (QuizSetup, SuggestionsView.tsx 60-224)                  *)
(***************************************************************************)
Exams == {"JEE", "NEET"}

\* SuggestionsView.tsx 65-68
subjectsConfig(exam) ==
    IF exam = "JEE" THEN {"Physics", "Chemistry", "Maths"}
                    ELSE {"Physics", "Chemistry", "Biology"}

\* SuggestionsView.tsx 70
difficultyLevels ==
    {"Level 3: Boards", "Level 2: Mains/NEET", "Level 1: Advanced"}

\* the texts typed into the two inputs in this model
TypedTopics == {"", " ", "Kinematics"}
TypedMergeTopics == {"", " ", " Optics "}

\* String.prototype.trim on the typed texts of this model, each a whole string
trimTyped(text) ==
    CASE text = " "        -> ""
      [] text = " Optics " -> "Optics"
      [] OTHER             -> text

\* the state variables a handler of the form does not set
formFrame ==
    UNCHANGED <<retry, gen, quizConfig, questions, userAnswers,
                incorrectAnswers, quizState, error, isSubmitting,
                isSubmittingRef, quizHistory, showHistory, quizView,
                resultsView, callArgs, lastEvent, storeVars, prompt, now>>

\* the form is on screen and its controls are not disabled (isLoading)
formEnabled == renderContent = "QuizSetup" /\ ~isSubmitting

\* a variant that keeps the subject when the exam changes
setExamKeepingSubject(e) ==
    /\ formEnabled
    /\ setup' = [setup EXCEPT !.exam = e]
    /\ formFrame

\* SuggestionsView.tsx 142: an exam button
setExam(e) ==
    /\ formEnabled
    /\ setup' = [setup EXCEPT !.exam = e, !.subject = NotChosen]
    /\ formFrame

\* SuggestionsView.tsx 149-155: a subject button; the buttons are those of
\* the exam chosen
setSubject(s) ==
    /\ formEnabled
    /\ setup.exam # NotChosen
    /\ s \in subjectsConfig(setup.exam)
    /\ setup' = [setup EXCEPT !.subject = s]
    /\ formFrame

\* SuggestionsView.tsx 162-169: the topic input, shown once a subject is chosen
setTopic(text) ==
    /\ formEnabled
    /\ setup.subject # NotChosen
    /\ setup' = [setup EXCEPT !.topic = text]
    /\ formFrame

\* SuggestionsView.tsx 170-173: the checkbox
setIsMergingTopics(checked) ==
    /\ renderContent = "QuizSetup"
    /\ setup.subject # NotChosen
    /\ setup' = [setup EXCEPT !.isMergingTopics = checked]
    /\ formFrame

\* SuggestionsView.tsx 174-183: the second input, shown while merging
setMergeTopic(text) ==
    /\ formEnabled
    /\ setup.subject # NotChosen
    /\ setup.isMergingTopics
    /\ setup' = [setup EXCEPT !.mergeTopic = text]
    /\ formFrame

\* SuggestionsView.tsx 194-202: a level button
setLevel(l) ==
    /\ formEnabled
    /\ setup.exam # NotChosen
    /\ setup.subject # NotChosen
    /\ setup' = [setup EXCEPT !.level = l]
    /\ formFrame

\* SuggestionsView.tsx 81-97, behind the button of 208-214; onStartQuiz is
\* startQuiz of App.tsx
handleStart ==
    /\ formEnabled
    /\ setup.exam # NotChosen /\ setup.subject # NotChosen
    /\ trimTyped(setup.topic) # "" /\ setup.level # NotChosen
    /\ IF setup.isMergingTopics /\ trimTyped(setup.mergeTopic) = ""
       THEN /\ setup' = [setup EXCEPT !.error =
                  "Please enter the second topic to merge or disable the option."]
            /\ formFrame
       ELSE startQuiz([exam |-> setup.exam, subject |-> setup.subject,
                       topic |-> setup.topic, level |-> setup.level,
                       mergeTopic |-> IF setup.isMergingTopics
                                      THEN trimTyped(setup.mergeTopic)
                                      ELSE "none"],
                      FALSE)

\* SuggestionsView.tsx 99-107, behind the button of 189-191
handleStartRevisionQuiz ==
    /\ formEnabled
    /\ setup.subject # NotChosen
    /\ setup.level # NotChosen
    /\ IF setup.exam = NotChosen
       THEN /\ setup' = [setup EXCEPT !.error =
                  "Please select an exam, subject, and difficulty level for the revision quiz."]
            /\ formFrame
       ELSE startQuiz([exam |-> setup.exam, subject |-> setup.subject,
                       topic |-> FoundationalConcepts, level |-> setup.level,
                       mergeTopic |-> "none"],
                      FALSE)

(***************************************************************************)
(* The application with its setup form filled in step by step; the         *)
(* provider fails every quiz request, so the form comes back               *)
(***************************************************************************)
SetupNext ==
    \/ \E e \in Exams : setExam(e)
    \/ \E s \in subjectsConfig("JEE") \cup subjectsConfig("NEET") : setSubject(s)
    \/ \E text \in TypedTopics : setTopic(text)
    \/ \E checked \in BOOLEAN : setIsMergingTopics(checked)
    \/ \E text \in TypedMergeTopics : setMergeTopic(text)
    \/ \E l \in difficultyLevels : setLevel(l)
    \/ handleStart
    \/ handleStartRevisionQuiz
    \/ ApiRejectsWith("quiz", StoreQuizFailures)
    \/ GenerateQuizSettles
    \/ StartQuizResumes

SetupSpec == Init /\ [][SetupNext]_vars

(***************************************************************************)
(* Harness of generateQuizPrompt: generateQuiz is called with any config   *)
(* and with no list or any list of up to MaxMistakes incorrect answers     *)
(***************************************************************************)
PromptConfigs ==
    UNION {{[exam |-> e, subject |-> s, topic |-> t, level |-> l,
             mergeTopic |-> m] :
               s \in subjectsConfig(e),
               t \in {"Kinematics", FoundationalConcepts},
               l \in difficultyLevels, m \in {"none", "Optics"}} :
           e \in Exams}

\* the incorrect answers a user can give to the questions of ItemTokens
Mistakes ==
    UNION {{[question |-> ParseItem(t).question,
             options |-> ParseItem(t).options,
             correctAnswerIndex |-> ParseItem(t).correctAnswerIndex,
             userAnswerIndex |-> i] :
               i \in {j \in 0..(Len(ParseItem(t).options) - 1) :
                        j # ParseItem(t).correctAnswerIndex}} :
           t \in ItemTokens}

MistakeLists == UNION {SeqsOf(Mistakes, n) : n \in 0..MaxMistakes}

PromptInit ==
    /\ retry = [f \in Fns |-> NotInvoked]
    /\ gen = [f \in Fns |-> NotCalled]
    /\ storage = FreshStorage
    /\ historyShape = "array"
    /\ crashed = FALSE
    /\ quizConfig = NoConfig
    /\ questions = <<>>
    /\ userAnswers = <<>>
    /\ incorrectAnswers = <<>>
    /\ quizState = "idle"
    /\ error = Null
    /\ isSubmitting = FALSE
    /\ isSubmittingRef = FALSE
    /\ quizHistory = <<>>
    /\ showHistory = FALSE
    /\ quizView = NoQuizView
    /\ resultsView = NoResultsView
    /\ \E c \in PromptConfigs,
          mistakes \in {Undefined} \cup {Passed(list) : list \in MistakeLists} :
         callArgs = [f \in Fns |->
                       IF f = "quiz"
                       THEN [config |-> c, incorrectAnswers |-> mistakes]
                       ELSE NoArgs]
    /\ lastEvent = "mount"
    /\ setup = InitialSetup
    /\ prompt = NoPrompt
    /\ now = 0

\* geminiService.ts 135
PromptBuilt ==
    /\ prompt = NoPrompt
    /\ prompt' = generateQuizPrompt(callArgs["quiz"].config,
                                    callArgs["quiz"].incorrectAnswers)
    /\ UNCHANGED <<retry, gen, quizConfig, questions, userAnswers,
                   incorrectAnswers, quizState, error, isSubmitting,
                   isSubmittingRef, quizHistory, showHistory, quizView,
                   resultsView, callArgs, lastEvent, storeVars, setup, now>>

PromptSpec == PromptInit /\ [][PromptBuilt]_vars

\* the steps of a start request once it is accepted
QuizProgress ==
    \/ ApiResolves("quiz", QuizResponses)
    \/ ApiRejectsWith("quiz", QuizFailures)
    \/ BackoffElapsed("quiz")
    \/ GenerateQuizSettles
    \/ StartQuizResumes

\* every provider call completes, every backoff timer fires and the event
\* loop runs every ready continuation
FairSpec == Spec /\ WF_vars(QuizProgress)

(***************************************************************************)
(* Properties of withRetry                                                 *)
(***************************************************************************)
Slots == DOMAIN retry
CaughtTransient(w) == isTransientError(errorMessage(w.caught))
Max(a, b) == IF a >= b THEN a ELSE b

\* C1: an operation that fails on every call with a transient message is
\* called exactly maxRetries times (maxRetries >= 1), with maxRetries - 1
\* waits in between, and withRetry then raises the fixed "unavailable" error;
\* before the last of these calls has failed nothing is raised.
C1_TransientExhaustion ==
    \A s \in Slots :
      LET w == retry[s] IN
        (w.maxRetries >= 1 /\ w.attempt >= 1 /\ CaughtTransient(w)) =>
          /\ Raised(w) <=> w.attempt = w.maxRetries
          /\ Raised(w) =>
               /\ w.calls = w.maxRetries
               /\ Len(Waits(w.trace)) = w.maxRetries - 1
               /\ w.error = ErrorObject("Error", UnavailableMessage)
          /\ ~Returned(w) => w.calls <= w.maxRetries

C1_Witness ==
    \E s \in Slots :
      /\ retry[s].maxRetries = 3 /\ Raised(retry[s])
      /\ CaughtTransient(retry[s]) /\ retry[s].calls = 3

\* C2: with maxRetries = 3, two transient failures followed by a success give
\* the success value after the events call, wait 1000, call, wait 2000, call.
C2_TwoFailuresThenSuccess ==
    \A s \in Slots :
      LET w == retry[s] IN
        (w.maxRetries = 3 /\ Returned(w) /\ w.attempt = 2) =>
          /\ w.result = w.resolved
              /\ w.calls = 3
          /\ w.trace = <<CallEvent, WaitEvent(1000), CallEvent,
                         WaitEvent(2000), CallEvent>>

C2_Witness ==
    \E s \in Slots :
      /\ retry[s].maxRetries = 3 /\ Returned(retry[s])
      /\ retry[s].attempt = 2 /\ retry[s].result = Resolved("v2")

\* C3: a failure that is not classified as transient is raised at once:
\* no wait and no call follows it, whatever the attempts remaining.
C3_NonTransientState ==
    \A s \in Slots :
      LET w == retry[s] IN
        (w.attempt >= 1 /\ ~CaughtTransient(w)) =>
          /\ Raised(w)
          /\ w.calls = w.attempt
          /\ w.trace[Len(w.trace)] = CallEvent
          /\ Len(Waits(w.trace)) = w.attempt - 1

C3_NonTransientStep ==
    \A s \in Slots :
      (retry[s].attempt >= 1 /\ ~CaughtTransient(retry[s])) =>
         retry'[s] = retry[s]

C3_NoRetryOfNonTransient ==
    [](C3_NonTransientState) /\ [][C3_NonTransientStep]_vars

C3_Witness ==
    \E s \in Slots :
      /\ retry[s].maxRetries = 3 /\ Raised(retry[s])
      /\ retry[s].attempt = 1 /\ retry[s].calls = 1
      /\ ~CaughtTransient(retry[s])

\* C4: the wait that follows the k-th failed attempt of one withRetry call
\* lasts 1000 * 2^(k-1) ms, k counting every failure of the call.
C4_ExponentialBackoff ==
    \A s \in Slots :
      LET w  == retry[s]
          ws == Waits(w.trace)
      IN  /\ \A k \in 1..Len(ws) : ws[k] = 1000 * (2 ^ (k - 1))
          /\ w.pc \in {"waiting", "pending", "returned"} => Len(ws) = w.attempt
          /\ w.pc = "raised" => Len(ws) = w.attempt - 1

C4_Witness ==
    \E s \in Slots :
      /\ retry[s].pc = "waiting"
      /\ Waits(retry[s].trace) = <<1000, 2000, 4000>>

\* C5: withRetry makes at most max(1, maxRetries) calls, reaches returned or
\* raised when the operation always completes, and does nothing afterwards.
C5_CallBound ==
    \A s \in Slots : retry[s].calls <= Max(1, retry[s].maxRetries)

C5_TerminalStep ==
    \A s \in Slots : Finished(retry[s]) => retry'[s] = retry[s]

C5_Termination ==
    /\ [](C5_CallBound)
    /\ [][C5_TerminalStep]_vars
    /\ \A s \in {"direct"} : (retry[s].pc # "idle") ~> Finished(retry[s])

C5_Witness ==
    \E s \in Slots :
      /\ Raised(retry[s]) /\ retry[s].maxRetries = 0 /\ retry[s].calls = 1

Parsed(f) == JSONparse(trim(retry[f].result.message))
GotText(f) == Returned(retry[f]) /\ retry[f].result.name = "text"
Settled(f) == gen[f].pc \in {"returned", "raised"}

\* once the provider has answered, no further provider call is made
NoCallAfterAnswer ==
    \A f \in Fns : Returned(retry[f]) => retry'[f].calls = retry[f].calls

\* C7: when the answer parses to a value that is not an array, or to an empty
\* array, generateQuiz raises 'AI returned an invalid quiz format.' and the
\* provider is not called again (the answer took one call, and the call count
\* is one plus the transient failures withRetry retried before it, so one in
\* total when the provider answered at once); a normal return of generateQuiz
\* is a non-empty array.
C7_QuizFormatState ==
    LET w == retry["quiz"]
        g == gen["quiz"]
    IN  /\ (Settled("quiz") /\ GotText("quiz") /\ Parsed("quiz").ok
              /\ (~IsArray(Parsed("quiz").value) \/ Parsed("quiz").value.items = <<>>)) =>
               /\ g.pc = "raised"
               /\ g.error = ErrorObject("Error", QuizFormatMessage)
               /\ w.calls = w.attempt + 1
               /\ w.attempt = 0 => w.calls = 1
        /\ g.pc = "returned" =>
               /\ IsArray(g.result)
               /\ Len(g.result.items) >= 1
               /\ g.result = Parsed("quiz").value

DomainMessages(f) ==
    { FormatMessage(f), UnknownGenerationMessage(f), UnavailableMessage,
      UnknownMessage, UnexpectedPrefix \o SyntaxErrorMessage }

C8_ParseFailureIsDomainError ==
    \A f \in Fns :
      (Settled(f) /\ GotText(f) /\ ~Parsed(f).ok) =>
        /\ gen[f].pc = "raised"
        /\ gen[f].error.name = "Error"
        /\ gen[f].error.message \in DomainMessages(f)

\* C10: generateSuggestions raises its format error when the parsed answer
\* lacks books or youtube, generateImprovementSuggestions when it lacks
\* topicsToImprove; the provider is not called again (one call for the
\* answer); a normal return carries the required fields.
RequiredFields(f) ==
    CASE f = "suggestions" -> {"books", "youtube"}
      [] f = "improvement" -> {"topicsToImprove"}

C10_SuggestionFormatState ==
    \A f \in {"suggestions", "improvement"} :
      LET w == retry[f]
          g == gen[f]
      IN  /\ (Settled(f) /\ GotText(f) /\ Parsed(f).ok
                /\ \E r \in RequiredFields(f) : ~HasField(Parsed(f).value, r)) =>
                 /\ g.pc = "raised"
                 /\ g.error = ErrorObject("Error", FormatMessage(f))
                 /\ w.calls = w.attempt + 1
                 /\ w.attempt = 0 => w.calls = 1
          /\ g.pc = "returned" =>
                 /\ \A r \in RequiredFields(f) : HasField(g.result, r)
                 /\ g.result = Parsed(f).value

C9_InvokerErrorUnchanged ==
    /\ (gen["quiz"].pc = "raised" /\ Raised(retry["quiz"])) =>
          gen["quiz"].error = retry["quiz"].error
    /\ (gen["quiz"].pc = "raised" /\ Raised(retry["quiz"]) /\ ~isSubmittingRef) =>
          /\ quizState = "idle"
          /\ error = Message(retry["quiz"].error.message)

C9_Witness ==
    /\ gen["quiz"].pc = "raised" /\ Raised(retry["quiz"]) /\ ~isSubmittingRef
    /\ error = Message(UnexpectedPrefix \o MsgQuota)

(***************************************************************************)
(* The question set and the session  (C11-C16)                             *)
(***************************************************************************)
WellFormed(q) == Len(q.options) = 4 /\ q.correctAnswerIndex \in 0..3

\* C11: every question generateQuiz returns, and so every question the session
\* holds while it is active or finished, has exactly four options and a
\* correctAnswerIndex in 0..3.  generateQuiz checks only that the answer is a
\* non-empty array (148-150), so this does not hold.
C11_QuestionsWellFormed ==
    /\ gen["quiz"].pc = "returned" =>
         \A i \in 1..Len(gen["quiz"].result.items) :
            WellFormed(gen["quiz"].result.items[i])
    /\ quizState \in {"active", "finished"} =>
         \A i \in 1..Len(questions) : WellFormed(questions[i])

AllowedTransitions ==
    { <<"idle", "loading">>, <<"loading", "active">>, <<"loading", "idle">>,
      <<"active", "finished">>, <<"finished", "loading">>,
      <<"finished", "idle">> }

\* C12: the session state changes only along idle->loading, loading->active,
\* loading->idle, active->finished, finished->loading and finished->idle.
C12_OnlyListedTransitions ==
    [][quizState' # quizState =>
          <<quizState, quizState'>> \in AllowedTransitions]_vars

\* a try again of a finished quiz has failed: the session went through
\* idle, loading, active, finished, loading and idle
C12_Witness ==
    /\ quizState = "idle"
    /\ callArgs["quiz"].incorrectAnswers.passed
    /\ error # Null
    /\ Len(quizHistory) = 1
    /\ ~isSubmittingRef

\* a step that starts a call of generateQuiz
NewQuizCall ==
    /\ gen'["quiz"].pc = "awaiting"
    /\ retry'["quiz"] = withRetry(DefaultMaxRetries)
    /\ gen["quiz"] # gen'["quiz"] \/ retry["quiz"] # retry'["quiz"]

C13_Accepted ==
    (~isSubmittingRef /\ isSubmittingRef') =>
        /\ quizState' = "loading"
        /\ NewQuizCall
        /\ callArgs'["quiz"].config = quizConfig'

C13_CalledOnce == (isSubmittingRef /\ isSubmittingRef') => ~NewQuizCall

C13_Settled ==
    (isSubmittingRef /\ ~isSubmittingRef') =>
        IF gen["quiz"].pc = "returned"
        THEN /\ quizState' = "active"
             /\ questions' = gen["quiz"].result.items
             /\ userAnswers' = <<>>
             /\ incorrectAnswers' = <<>>
             /\ error' = Null
        ELSE /\ gen["quiz"].pc = "raised"
             /\ quizState' = "idle"
             /\ error' # Null
             /\ error'.text # <<>>
             /\ error' = Message(gen["quiz"].error.message)

\* C13: an accepted start request moves the session to loading and calls
\* generateQuiz once; when the call returns the session is active with the
\* returned question set, no answers, no incorrect answers and no error; when
\* it raises the session is idle with the raised error's message, not empty.
C13_StartRequestOutcome ==
    [][C13_Accepted /\ C13_CalledOnce /\ C13_Settled]_vars

\* a start request has failed on the format of the provider's answer
C13_Witness ==
    /\ quizState = "idle"
    /\ ~isSubmittingRef
    /\ gen["quiz"].pc = "raised"
    /\ error = Message(QuizFormatMessage)

C14_Dropped ==
    (lastEvent' = "dropped" /\ lastEvent # "dropped") =>
        /\ isSubmittingRef
        /\ UNCHANGED <<retry, gen, quizConfig, questions, userAnswers,
                       incorrectAnswers, quizState, error, isSubmitting,
                       isSubmittingRef, quizHistory, callArgs>>

C14_NoCallWhilePending ==
    isSubmittingRef =>
        /\ ~NewQuizCall
        /\ callArgs' = callArgs
        /\ quizConfig' = quizConfig
        /\ quizHistory' = quizHistory

\* C14: a start request that arrives while a generateQuiz call is pending is
\* dropped: no call is made and the configuration, the questions, the answers,
\* the session state, the error and the history stay as they are.
C14_PendingRequestDropped ==
    [][C14_Dropped /\ C14_NoCallWhilePending]_vars

\* a start request was dropped while the pending call was at its second
\* provider call
C14_Witness ==
    /\ lastEvent = "dropped"
    /\ isSubmittingRef
    /\ retry["quiz"].calls = 2

InFlight == {f \in Fns : gen[f].pc = "awaiting"}

C16_LoadingEnds ==
    /\ [](isSubmittingRef <=> quizState = "loading")
    /\ [](isSubmitting <=> isSubmittingRef)
    /\ (quizState = "loading") ~> (quizState # "loading" /\ ~isSubmittingRef)

\* a start request has ended in failure after the retries were used up
C16_Witness ==
    /\ quizState = "idle"
    /\ ~isSubmittingRef
    /\ error = Message(UnavailableMessage)
    /\ retry["quiz"].calls = DefaultMaxRetries

(***************************************************************************)
(* Completion, history and try again  (C17-C20)                            *)
(***************************************************************************)
\* the positions of the questions answered correctly, answered incorrectly and
\* left unattempted, by the answers the session holds
CorrectAt ==
    {i \in 1..Len(questions) :
        userAnswers[i] # NoAnswer /\ userAnswers[i] = questions[i].correctAnswerIndex}
IncorrectAt ==
    {i \in 1..Len(questions) :
        userAnswers[i] # NoAnswer /\ userAnswers[i] # questions[i].correctAnswerIndex}
UnattemptedAt == {i \in 1..Len(questions) : userAnswers[i] = NoAnswer}

\* p is the integer nearest to 100 * k / n, a half going up
Nearest(p, k, n) == 2 * p * n - n <= 200 * k /\ 200 * k < 2 * p * n + n

\* C17: when a quiz of N questions is completed with K answers equal to the
\* correct index, the history item recorded has score K, totalQuestions N and
\* percentage round(100 * K / N).
C17_HistoryItemScore ==
    quizState = "finished" =>
        /\ Len(userAnswers) = Len(questions)
        /\ quizHistory # <<>>
        /\ quizHistory[1].score = Cardinality(CorrectAt)
        /\ quizHistory[1].totalQuestions = Len(questions)
        /\ Nearest(quizHistory[1].percentage, Cardinality(CorrectAt),
                   Len(questions))

\* two of three questions were answered correctly: 67 percent
C17_Witness ==
    /\ quizState = "finished"
    /\ Len(questions) = 3
    /\ Cardinality(CorrectAt) = 2
    /\ quizHistory[1].percentage = 67

\* the k-th position of IncorrectAt in question order
KthIncorrect(k) ==
    CHOOSE i \in IncorrectAt : Cardinality({j \in IncorrectAt : j < i}) = k - 1

\* C18: at completion every question is correct, incorrect or unattempted;
\* incorrectAnswers holds exactly the incorrect ones, in question order, each
\* with the index the user chose, and never an unattempted one; the score, the
\* incorrect and the unattempted add up to the number of questions.
C18_IncorrectAnswersExact ==
    quizState = "finished" =>
        /\ Len(incorrectAnswers) = Cardinality(IncorrectAt)
        /\ \A k \in 1..Len(incorrectAnswers) :
              LET i == KthIncorrect(k)
              IN  /\ incorrectAnswers[k].question = questions[i].question
                  /\ incorrectAnswers[k].options = questions[i].options
                  /\ incorrectAnswers[k].correctAnswerIndex =
                        questions[i].correctAnswerIndex
                  /\ incorrectAnswers[k].userAnswerIndex = userAnswers[i]
                  /\ incorrectAnswers[k].userAnswerIndex # NoAnswer
        /\ quizHistory[1].score + Len(incorrectAnswers)
              + Cardinality(UnattemptedAt) = Len(questions)

\* one question each was answered correctly, answered incorrectly and left
\* unattempted
C18_Witness ==
    /\ quizState = "finished"
    /\ Cardinality(CorrectAt) = 1
    /\ Cardinality(IncorrectAt) = 1
    /\ Cardinality(UnattemptedAt) = 1
    /\ Len(incorrectAnswers) = 1

C19_Completion ==
    (quizState = "active" /\ quizState' = "finished") =>
        /\ Len(quizHistory') = Len(quizHistory) + 1
        /\ Tail(quizHistory') = quizHistory
        /\ quizHistory'[1].config = quizConfig
        /\ quizHistory'[1].totalQuestions = Len(questions)

C19_OtherSteps ==
    (~(quizState = "active" /\ quizState' = "finished")
        /\ quizHistory' # quizHistory) =>
        /\ lastEvent' = "handleClearHistory"
        /\ quizState = "idle" /\ showHistory
        /\ quizHistory' = <<>>

\* C19: each step from active to finished puts one new item at the front of
\* the history and leaves the earlier items as they were; any other step that
\* changes the history is the clearing the user confirmed.
C19_HistoryGrowsAtFront == [][C19_Completion /\ C19_OtherSteps]_vars

\* a second quiz was completed with another result than the first
C19_Witness ==
    /\ quizState = "finished"
    /\ Len(quizHistory) = 2
    /\ quizHistory[1] # quizHistory[2]

C20_Request ==
    (lastEvent' = "handleTryAgain" /\ ~isSubmittingRef /\ isSubmittingRef') =>
        /\ quizState = "finished"
        /\ incorrectAnswers = incorrectOf(questions, userAnswers)
        /\ NewQuizCall
        /\ callArgs'["quiz"] =
              [config |-> quizConfig,
               incorrectAnswers |-> Passed(incorrectAnswers)]
        /\ quizConfig' = quizConfig

C20_Success ==
    (callArgs["quiz"].incorrectAnswers.passed /\ isSubmittingRef
        /\ ~isSubmittingRef' /\ gen["quiz"].pc = "returned") =>
        /\ questions' = gen["quiz"].result.items
        /\ userAnswers' = <<>>
        /\ incorrectAnswers' = <<>>

\* C20: try again in the finished state calls generateQuiz with the
\* configuration of the finished quiz and the incorrect answers computed at
\* its completion; when the call returns, the returned question set replaces
\* the old one and the answers and the incorrect answers are emptied.
C20_TryAgain == [][C20_Request /\ C20_Success]_vars

\* the quiz generated for a try again with one incorrect answer is active,
\* and it is not the quiz that was finished
C20_Witness ==
    /\ quizState = "active"
    /\ callArgs["quiz"].incorrectAnswers.passed
    /\ Len(callArgs["quiz"].incorrectAnswers.list) = 1
    /\ Len(quizHistory) = 1
    /\ Len(questions) # quizHistory[1].totalQuestions
    /\ incorrectAnswers = <<>>

(***************************************************************************)
(* New topic, failed generation, the timer and the suggestions  (C21-C24)  *)
(***************************************************************************)
\* a step in which a generation function is called
CallStarts(f) == gen'[f].pc = "awaiting" /\ gen[f].pc # "awaiting"

\* C21: new topic in the finished state moves the session to idle with the
\* configuration cleared, the questions, the answers and the incorrect answers
\* empty and the error cleared; it calls no generation function and leaves the
\* history as it was.
C21_NewTopic ==
    [][(quizState = "finished" /\ lastEvent' = "handleNewTopic") =>
          /\ quizState' = "idle"
          /\ quizConfig' = NoConfig
          /\ questions' = <<>>
          /\ userAnswers' = <<>>
          /\ incorrectAnswers' = <<>>
          /\ error' = Null
          /\ \A f \in Fns : ~CallStarts(f) /\ retry'[f].calls <= retry[f].calls
          /\ callArgs' = callArgs
          /\ quizHistory' = quizHistory]_vars

\* new topic was chosen after a quiz with an incorrect answer
C21_Witness ==
    /\ lastEvent = "handleNewTopic"
    /\ quizState = "idle"
    /\ questions = <<>>
    /\ Len(quizHistory) = 1
    /\ quizHistory[1].score < quizHistory[1].totalQuestions
    /\ callArgs["suggestions"].incorrectAnswers.passed

\* C22: a start request that fails leaves the questions, the answers, the
\* incorrect answers and the history as they were before the request: no step
\* from the acceptance of the request to the failure changes them, and the
\* failure moves the session to idle.
C22_FailureKeepsQuiz ==
    [][((isSubmittingRef \/ isSubmittingRef')
          /\ ~(isSubmittingRef /\ ~isSubmittingRef'
                  /\ gen["quiz"].pc = "returned")) =>
          /\ UNCHANGED <<questions, userAnswers, incorrectAnswers, quizHistory>>
          /\ (isSubmittingRef /\ ~isSubmittingRef') =>
                quizState' = "idle" /\ error' # Null]_vars

\* a try again has failed and the finished quiz is still held
C22_Witness ==
    /\ quizState = "idle"
    /\ ~isSubmittingRef
    /\ error # Null
    /\ callArgs["quiz"].incorrectAnswers.passed
    /\ Len(questions) = 2
    /\ Len(userAnswers) = 2
    /\ Len(incorrectAnswers) = 1
    /\ Len(quizHistory) = 1

\* C23: when the countdown expires in the active state the quiz is completed
\* with the answers saved so far, the question shown having the current
\* selection; the completion is scored and put in the history as any other.
C23_TimerExpiry ==
    /\ [][(TimerTick /\ quizView.timeLeft <= 1) =>
            /\ quizState = "active" /\ quizState' = "finished"
            /\ lastEvent' = "timer"
            /\ Len(userAnswers') = Len(questions)
            /\ \A i \in 1..Len(questions) :
                  userAnswers'[i] =
                     IF i = quizView.currentQuestionIndex + 1
                     THEN quizView.currentSelection
                     ELSE quizView.selectedAnswers[i]
            /\ Tail(quizHistory') = quizHistory]_vars
    /\ [][(TimerTick /\ quizView.timeLeft > 1) =>
            /\ quizState' = "active"
            /\ quizView' = [quizView EXCEPT !.timeLeft = @ - 1]]_vars
    /\ [](lastEvent = "timer" /\ quizState = "finished" =>
            /\ quizHistory[1].score = Cardinality(CorrectAt)
            /\ quizHistory[1].totalQuestions = Len(questions)
            /\ Len(incorrectAnswers) = Cardinality(IncorrectAt))

\* the timer expired on the second question, selected but not saved, the
\* first one having been skipped
C23_Witness ==
    /\ lastEvent = "timer"
    /\ quizState = "finished"
    /\ Len(questions) = 2
    /\ userAnswers = <<NoAnswer, 1>>
    /\ Len(incorrectAnswers) = 1
    /\ quizHistory[1].score = 0

\* C24: generateSuggestions and generateImprovementSuggestions are called
\* only in the finished state with a non-empty list of incorrect answers, which
\* is their argument; with an empty list neither is called.
C24_SuggestionsNeedMistakes ==
    /\ [][\A f \in SuggestionFns :
            CallStarts(f) =>
               /\ quizState' = "finished"
               /\ Len(incorrectAnswers') > 0
               /\ callArgs'[f].incorrectAnswers = Passed(incorrectAnswers')
               /\ callArgs'[f].config = quizConfig']_vars
    /\ [](quizState = "finished" /\ incorrectAnswers = <<>> =>
            ~resultsView.fetching /\ ~resultsView.isLoadingSuggestions)

\* a quiz finished with no incorrect answer and no suggestion call
C24_Witness ==
    /\ quizState = "finished"
    /\ incorrectAnswers = <<>>
    /\ Len(questions) = 2
    /\ Cardinality(CorrectAt) = 1
    /\ \A f \in SuggestionFns : gen[f].pc = "idle"

(***************************************************************************)
(* The stored history  (C25-C27)                                           *)
(***************************************************************************)
\* the mount effects run in this step
StartupStep == lastEvent = "render" /\ lastEvent' \in {"loaded", "mount"}

\* the entry read back, the storage working
ReadBack == loadHistory([entry |-> storage.entry, broken |-> FALSE])

\* C25: after every change of the history in memory (the new item of a
\* completion, the clearing) the stored entry is written again, the value
\* loaded at startup is written by the render that follows, and once a write
\* has gone through the stored history is the history in memory.
C25_StoredHistoryFollows ==
    /\ [][((quizHistory' # quizHistory \/ historyShape' # historyShape)
             /\ ~StartupStep /\ ~storage'.broken) =>
            storage'.entry = JSONstringify(historyShape', quizHistory')]_vars
    /\ [][(lastEvent = "loaded" /\ lastEvent' # "loaded"
             /\ ~storage'.broken) =>
            storage'.entry = JSONstringify(historyShape, quizHistory)]_vars
    /\ []((lastEvent \notin {"render", "loaded"} /\ ~storage.broken) =>
            /\ storage.entry = JSONstringify(historyShape, quizHistory)
            /\ ReadBack.set
            /\ ReadBack.items = quizHistory
            /\ ReadBack.shape = historyShape)

\* a quiz was completed on top of the stored item and both items are stored
C25_Witness ==
    /\ quizState = "finished"
    /\ Len(quizHistory) = 2
    /\ quizHistory[2] = StoredItem
    /\ storage.entry = StoredText("array", quizHistory)

\* the entry is the serialization of a sequence of history items
ValidSerialized(e) == e.present /\ e.syntax = "array"

\* C26: at startup an entry that is absent or is not the serialization of a
\* sequence of history items gives an empty history in memory and the
\* application goes on.  An entry that is JSON but not an array ("null") is
\* parsed and stored as the history (App.tsx 26-27), so this does not hold.
C26_InvalidEntryGivesEmptyHistory ==
    /\ [][(StartupStep /\ ~ValidSerialized(storage.entry)) =>
            /\ quizHistory' = <<>>
            /\ historyShape' = "array"
            /\ ~crashed']_vars
    /\ [](historyShape = "array" /\ ~crashed)

\* C27: an error thrown by the reading or the writing of the stored history
\* is swallowed: it changes neither the session state, the questions, the
\* answers nor the error, and with the storage failing a start request, a
\* completion, try again and new topic take effect as ever.
C27_StorageFailureSwallowed ==
    /\ [][(StartupStep /\ loadHistory(storage).thrown) =>
            /\ quizHistory' = <<>> /\ historyShape' = "array"
            /\ ~crashed'
            /\ UNCHANGED <<quizState, questions, userAnswers,
                           incorrectAnswers, error, quizConfig>>]_vars
    /\ [][(storage.broken /\ storage' # storage) => FALSE]_vars
    /\ [](crashed => historyShape # "array")
    /\ []((storage.broken /\ ~crashed /\ historyShape = "array") =>
            /\ (renderContent = "QuizSetup" /\ Len(quizHistory) < MaxHistory
                   /\ now < MaxCompletions) =>
                 ENABLED (SetupStartsQuiz /\ quizState' = "loading" /\ ~crashed')
            /\ renderContent = "QuizView" =>
                 ENABLED (handleEndQuiz /\ quizState' = "finished" /\ ~crashed'
                            /\ Len(quizHistory') = Len(quizHistory) + 1)
            /\ renderContent = "ResultsView" /\ ~isSubmitting =>
                 ENABLED (handleNewTopic /\ quizState' = "idle" /\ ~crashed')
            /\ (renderContent = "ResultsView" /\ ~isSubmitting
                   /\ Len(quizHistory) < MaxHistory
                   /\ now < MaxCompletions) =>
                 ENABLED (handleTryAgain /\ quizState' = "loading" /\ ~crashed'))

\* a quiz was completed while the storage was failing: the history in memory
\* has the new item and the stored entry does not
C27_Witness ==
    /\ storage.broken
    /\ ~crashed
    /\ quizState = "finished"
    /\ Len(quizHistory) = 1
    /\ storage.entry = StoredText("array", <<>>)

(***************************************************************************)
(* The setup form and the quiz prompt  (C28-C30)                           *)
(***************************************************************************)
\* the subject of the config belongs to its exam
SubjectAllowed(config) ==
    /\ config.exam \in Exams
    /\ config.subject \in subjectsConfig(config.exam)

\* C28: whatever exam, subject, topic and level selections were made, the
\* exam changed after a subject was chosen included, the config of every start
\* request carries a subject that belongs to its exam.
C28_SubjectBelongsToExam ==
    /\ [][CallStarts("quiz") =>
            /\ SubjectAllowed(callArgs'["quiz"].config)
            /\ quizConfig' = callArgs'["quiz"].config]_vars
    /\ [](setup.subject # NotChosen =>
            /\ setup.exam # NotChosen
            /\ setup.subject \in subjectsConfig(setup.exam))

\* a NEET quiz on Biology with a second topic was requested
C28_Witness ==
    /\ quizState = "loading"
    /\ quizConfig # NoConfig
    /\ quizConfig.exam = "NEET"
    /\ quizConfig.subject = "Biology"
    /\ quizConfig.mergeTopic = "Optics"

\* the arguments of the generateQuiz call whose prompt has been built
PromptConfig == callArgs["quiz"].config
PromptMistakes == callArgs["quiz"].incorrectAnswers

\* the piece after the first occurrence of the label is the value
Says(text, label, value) ==
    \E i \in 1..(Len(text) - 1) : text[i] = label /\ text[i + 1] = value

\* the prompt names the question of the mistake, the option chosen and the
\* correct option, each an option the question has
MistakeReported(text, m) ==
    /\ m.userAnswerIndex + 1 \in DOMAIN m.options
    /\ m.correctAnswerIndex + 1 \in DOMAIN m.options
    /\ \E i \in 1..(Len(text) - 5) :
         /\ text[i] = QuestionLabel
         /\ text[i + 1] = m.question
         /\ text[i + 2] = IncorrectLabel
         /\ text[i + 3] = m.options[m.userAnswerIndex + 1]
         /\ text[i + 4] = CorrectLabel
         /\ text[i + 5] = m.options[m.correctAnswerIndex + 1]

\* C29: for a list of incorrect answers that is not empty the prompt holds,
\* for each mistake, the question, the text of the option chosen and the text
\* of the correct option, and the prompt of the same config without mistakes
\* is a proper prefix of it.  A question whose correctAnswerIndex has no
\* option (C11) is reported with the correct answer "undefined".
C29_RetryPromptReportsMistakes ==
    (prompt # NoPrompt /\ PromptMistakes.passed
       /\ Len(PromptMistakes.list) > 0) =>
        LET base == generateQuizPrompt(PromptConfig, Undefined)
        IN  /\ \A k \in 1..Len(PromptMistakes.list) :
                 MistakeReported(prompt, PromptMistakes.list[k])
            /\ prompt # base
            /\ Len(base) < Len(prompt)
            /\ SubSeq(prompt, 1, Len(base)) = base

\* C30: the prompt asks for 20 questions and holds the exam, the subject and
\* the level of the config; it names the topic as primary topic unless the
\* topic is 'Foundational Concepts', when it names no primary topic and asks
\* for the whole syllabus of the subject; it names a secondary topic exactly
\* when mergeTopic is set.
C30_PromptFollowsConfig ==
    prompt # NoPrompt =>
        /\ prompt[1] = Opening
        /\ \A i \in 2..Len(prompt) : prompt[i] # Opening
        /\ Says(prompt, Opening, PromptConfig.exam)
        /\ Says(prompt, " exam. The subject is ", PromptConfig.subject)
        /\ Says(prompt, " The difficulty should be appropriate for ",
                PromptConfig.level)
        /\ PromptConfig.topic # FoundationalConcepts =>
             Says(prompt, PrimaryTopicIs, PromptConfig.topic)
        /\ PromptConfig.topic = FoundationalConcepts =>
             /\ \A i \in 1..Len(prompt) : prompt[i] # PrimaryTopicIs
             /\ Says(prompt, WholeSyllabus, PromptConfig.subject)
        /\ (\E i \in 1..Len(prompt) : prompt[i] = SecondaryTopicIs)
             <=> PromptConfig.mergeTopic # "none"
        /\ PromptConfig.mergeTopic # "none" =>
             Says(prompt, SecondaryTopicIs, PromptConfig.mergeTopic)

\* the prompt of a revision quiz with a second topic has been built
C30_Witness ==
    /\ prompt # NoPrompt
    /\ PromptConfig.topic = FoundationalConcepts
    /\ PromptConfig.mergeTopic = "Optics"
    /\ Len(prompt) = 17

(***************************************************************************)
(* The classification of failures and the final error  (C31, C36)          *)
(***************************************************************************)
\* the fixed substrings of lines 27-31
TransientSubstrings ==
    { <<"5","0","0">>, <<"5","0","3">>,
      <<"r","p","c"," ","f","a","i","l","e","d">>,
      <<"n","e","t","w","o","r","k"," ","e","r","r","o","r">>,
      <<"x","h","r"," ","e","r","r","o","r">> }

\* the same character, or the two cases of one letter
SameLetter(a, b) ==
    \/ a = b
    \/ \E i \in 1..Len(Upper) : {a, b} = {Upper[i], Lower[i]}

\* the text holds the substring, the case of the letters ignored
ContainsIgnoringCase(text, sub) ==
    \E i \in 0..(Len(text) - Len(sub)) :
       \A j \in 1..Len(sub) : SameLetter(text[i + j], sub[j])

\* withRetry treated the failure it caught last as transient: it waits for
\* a retry, or it raised the "unavailable" error
TreatedAsTransient(w) ==
    \/ w.pc = "waiting"
    \/ Raised(w) /\ w.error = ErrorObject("Error", UnavailableMessage)

\* C31: a failure is treated as transient exactly when its message holds one
\* of the five fixed substrings, the case of the letters ignored; every other
\* message is not transient.
C31_TransientClassification ==
    \A s \in Slots :
      LET w == retry[s] IN
        (w.attempt >= 1 /\ w.pc \in {"waiting", "raised"}) =>
          (TreatedAsTransient(w) <=>
             \E sub \in TransientSubstrings :
                ContainsIgnoringCase(w.caught.message, sub))

\* 'RPC Failed' was caught and is being retried
C31_Witness ==
    \E s \in Slots :
      LET w == retry[s] IN
        /\ w.pc = "waiting"
        /\ w.attempt = 1
        /\ w.caught = ErrorObject("Error", MsgRpc)

CompletionStep ==
    \/ Len(quizHistory') > Len(quizHistory)
    \/ userAnswers' # userAnswers /\ userAnswers' # <<>>

\* C33: a set of questions is completed at most once.  The QuizView and its
\* countdown exist exactly while the session is active; a completion leads
\* from active to finished and adds one item; in the finished state no timer
\* tick and no submission is possible, and neither the answers nor the history
\* change while the session stays finished; the session becomes active again
\* only from loading, with the questions of a new generateQuiz call.
C33_CompletedOnce ==
    /\ [](quizView.mounted <=> quizState = "active")
    /\ [][CompletionStep =>
            /\ quizState = "active" /\ quizState' = "finished"
            /\ Len(quizHistory') = Len(quizHistory) + 1
            /\ Tail(quizHistory') = quizHistory]_vars
    /\ [][(quizState = "finished" /\ quizState' = "finished") =>
            UNCHANGED <<userAnswers, incorrectAnswers, quizHistory,
                        questions>>]_vars
    /\ [](quizState # "active" =>
            /\ ~ENABLED TimerTick
            /\ ~ENABLED handleNext
            /\ ~ENABLED handleEndQuiz)
    /\ [][(quizState # "active" /\ quizState' = "active") =>
            /\ quizState = "loading"
            /\ gen["quiz"].pc = "returned"
            /\ questions' = gen["quiz"].result.items]_vars

\* the timer completed a quiz of two questions, the second quiz of the
\* session: the history holds one item for each
C33_Witness ==
    /\ lastEvent = "timer"
    /\ quizState = "finished"
    /\ ~quizView.mounted
    /\ now = 2
    /\ Len(quizHistory) = 2
    /\ Len(userAnswers) = 2

(***************************************************************************)
(* The stored history at startup  (C34)                                    *)
(***************************************************************************)
\* the entry is the serialization of a sequence with at least one item
HoldsSavedItems(e) == ValidSerialized(e) /\ Len(e.items) > 0

\* the entry is the serialization of the empty sequence
HoldsEmptySequence(e) == ValidSerialized(e) /\ Len(e.items) = 0

\* a reload now starts from an empty history although items had been saved
\* and the user has not cleared them: the first render's save effect has
\* written the empty array over them
C34_SavedItemsOverwritten ==
    /\ lastEvent = "loaded"
    /\ Len(quizHistory) > 0
    /\ HoldsEmptySequence(storage.entry)

\* C34: the stored entry is never overwritten with the empty sequence while
\* it holds the serialization of a non-empty history, unless the user has
\* cleared the history; at startup, between the read and the writes, the
\* store never holds the empty sequence in place of the saved items.  The
\* save effect of the first render writes the empty initial history before
\* the loaded one is rendered (App.tsx 18, 34-40), so this does not hold.
C34_SavedItemsNeverEmptied ==
    [][(HoldsSavedItems(storage.entry) /\ HoldsEmptySequence(storage'.entry))
         => lastEvent' = "handleClearHistory"]_vars

(***************************************************************************)
(* The recorded results  (C35)                                             *)
(***************************************************************************)
\* C35: every item of the history has at least one question, a score from 0
\* to the number of questions and a whole percentage from 0 to 100, however
\* the quizzes were completed (all answered, ended early, timer expiry with
\* nothing answered).
C35_HistoryItemsInRange ==
    \A i \in 1..Len(quizHistory) :
        /\ quizHistory[i].totalQuestions \in Nat \ {0}
        /\ quizHistory[i].score \in 0..quizHistory[i].totalQuestions
        /\ quizHistory[i].percentage \in 0..100

\* the timer ran out on a quiz with nothing answered, after a quiz with one
\* of two questions right
C35_Witness ==
    /\ lastEvent = "timer"
    /\ quizState = "finished"
    /\ Len(quizHistory) = 2
    /\ \A i \in 1..Len(userAnswers) : userAnswers[i] = NoAnswer
    /\ quizHistory[1].score = 0 /\ quizHistory[1].percentage = 0
    /\ quizHistory[2].score = 1 /\ quizHistory[2].totalQuestions = 2
    /\ quizHistory[2].percentage = 50

(***************************************************************************)
(* The suggestions of a finished quiz  (C37)                               *)
(***************************************************************************)
\* the session as the suggestion requests must leave it
sessionVars == <<quizState, questions, userAnswers, incorrectAnswers, error,
                 quizHistory>>

\* a step of the suggestion requests: a call, a retry or the fetch moves
\* while the results stay on screen
SuggestionStep ==
    /\ resultsView.mounted /\ resultsView'.mounted
    /\ \/ resultsView' # resultsView
       \/ \E f \in SuggestionFns : gen'[f] # gen[f] \/ retry'[f] # retry[f]

\* the fetch resumes on a failure of one of the two calls
FetchFails ==
    /\ resultsView.fetching /\ ~resultsView'.fetching
    /\ resultsView'.mounted
    /\ \E f \in SuggestionFns : gen[f].pc = "raised"

\* C37: the two suggestion requests succeed or fail together and leave the
\* session alone.  When either fails neither result is shown and the
\* suggestion error is set; the state stays finished and the questions, the
\* answers, the mistakes, the session error and the history are unchanged;
\* the loading flag is cleared whether the fetch succeeds or fails.
C37_SuggestionsAllOrNothing ==
    /\ [][FetchFails =>
            /\ resultsView'.suggestions = JsNull
            /\ resultsView'.improvementTopics = JsNull
            /\ resultsView'.suggestionError # Null
            /\ ~resultsView'.isLoadingSuggestions]_vars
    /\ [][SuggestionStep =>
            /\ quizState = "finished" /\ quizState' = "finished"
            /\ UNCHANGED sessionVars]_vars
    /\ [](resultsView.suggestionError # Null =>
            /\ resultsView.suggestions = JsNull
            /\ resultsView.improvementTopics = JsNull)
    /\ [](resultsView.suggestions = JsNull <=>
            resultsView.improvementTopics = JsNull)
    /\ [](resultsView.isLoadingSuggestions <=> resultsView.fetching)
    /\ [](resultsView.fetching => resultsView.mounted)

\* one call has returned its suggestions and the other has failed: the error
\* is shown, the returned suggestions are not
C37_Witness ==
    /\ quizState = "finished"
    /\ resultsView.mounted /\ ~resultsView.fetching
    /\ ~resultsView.isLoadingSuggestions
    /\ resultsView.suggestionError # Null
    /\ resultsView.suggestions = JsNull
    /\ gen["suggestions"].pc = "returned"
    /\ gen["improvement"].pc = "raised"

====
